---- MODULE Spec2Model ----
(***************************************************************************)
(* commitlore: the asynchronous LLM dispatcher (AsyncLLMWrapper,           *)
(* WaitForLLMResponse, CreateLLMResponseChannel) together with the Bubble  *)
(* Tea event loop of AppModel and the two screens that dispatch calls      *)
(* (TopicModel.ExtractTopics, ContentModel.generateContent).               *)
(*                                                                         *)
(* One call = one goroutine started by GenerateContent...Async, one        *)
(* buffered response channel, one WaitForLLMResponse command.  Time is a   *)
(* discrete clock; the timer of context.WithTimeout may fire at any moment *)
(* at or after its deadline.  The backend (LLMProvider) is the             *)
(* environment: it returns one of BackendResults at any moment, or never.  *)
(***************************************************************************)
EXTENDS Integers, Sequences, FiniteSets, TLC

\* ---- bounds of the model ------------------------------------------------
MaxCalls == 2
MaxTime == 1
MaxPending == 2
TimeoutTicks == 1

MaxProviders == 2
\* enter keys pressed in the provider screen in one run
MaxSelections == 1
\* commands of the provider screen that have not run, and messages of each
\* kind they and the keys have produced that are not yet handled
MaxInFlight == 1
\* commits in the repository
MaxCommits == 3
\* segments of a path, and directories below the root
MaxDepth == 2
\* the largest page size and page number asked for
MaxPage == 3
\* commits the listing has loaded
MaxListed == 6
\* topics one extraction returns
MaxTopics == 2
\* characters the prompt holds
MaxPrompt == 2

\* ---- program constants ---------------------------------------------------
ChanCap == 1
\* NewListingModel: the rows of the commit list on screen
maxViewport == 8
\* ListingModel.Update: the most commits one selection holds
SelectionLimit == 5

Calls == 1..MaxCalls

\* ---- values ----------------------------------------------------------------
NoError == "<nil>"
DeadlineExceeded == "context.DeadlineExceeded"
BackendError == "backend failure"

\* error.Error(): the text of an error value
ErrorText(err) ==
    CASE err = DeadlineExceeded -> "context deadline exceeded"
      [] err = BackendError -> "failed to make request"
      [] OTHER -> ""

\* what a provider's GenerateContentWithSystemPrompt returns: (text, nil) or ("", err)
BackendResults ==
    { [Content |-> "text", Error |-> NoError],
      [Content |-> "", Error |-> BackendError] }

\* the zero value of LLMResponse, received from a closed, empty channel
ZeroResponse == [Content |-> "", Error |-> NoError]

\* the keys the user presses in this model: enter, n (next), v (select) and
\* x for any other printable key; quit, escape and the provider screen are
\* not pressed
Keys == {"enter", "n", "v", "x"}

Views == {"SplashView", "ListingView", "TopicSelectionView",
          "FormatSelectionView", "ContentCreationView", "ProviderView"}

\* a nil *ProviderConfig
NoConfig == [Nil |-> TRUE, Providers |-> <<>>, ActiveProviderID |-> ""]

\* a configuration file that holds no record: it is absent, is not JSON, or
\* cannot be read
NoFile(st) == [state |-> st, providers |-> <<>>, active_provider_id |-> ""]

\* no command of the provider screen waits to run: loadProviders and
\* saveProviderConfig; and no message waits to be handled: ProviderMsg,
\* providerChangedMsg and BackMsg
NoPending ==
    [loadProviders |-> 0, saveProviderConfig |-> 0, ProviderMsg |-> 0,
     providerChangedMsg |-> 0, BackMsg |-> 0]

\* an environment in which the variables of a set all have one value
Environ(names, value) == [name \in names |-> value]

\* no provider has been selected in the provider screen
NoPick == [id |-> "", probe |-> FALSE, n |-> 0, refused |-> FALSE]

\* no operation has returned yet
NoRet ==
    [op |-> "none", id |-> "", provider |-> "nil", name |-> "", err |-> <<>>,
     list |-> <<>>, was |-> "", prevOp |-> "none", prevId |-> "", prevErr |-> <<>>]

VARIABLES
    now,            \* the clock
    \* AppModel and its screens
    currentView,
    selected,       \* ListingModel: len(selectedCommits) > 0
    isExtracting, topicErrorMsg, topics,
    isGenerating, contentErrorMsg, generatedContent,
    showFinalOutput, statusMessage,
    \* commands in flight towards the event loop
    splashPending, nextPending, tickPending,
    \* the UI thread: 0 = in the event loop, c = inside call c's backend call
    uiBlockedOn,
    \* one entry per call
    nCalls,         \* number of calls dispatched so far
    owner,          \* the screen that dispatched the call
    phase,          \* position of the call's goroutine
    deadline,       \* deadline of timeoutCtx
    ctxErr,         \* timeoutCtx.Err(); Done() is closed iff it is not NoError
    backendResult,  \* what the provider returned to the goroutine
    respChan,       \* the channel the call was given
    waitPhase,      \* position of the WaitForLLMResponse command
    waitMsg,        \* the LLMResponseMsg the command returned
    \* channels
    chanBuf, chanClosed,
    panicked,
    \* history
    retWhen,        \* when the backend returned: "early" before the deadline,
                    \* "late" at or after it, "fired" after the timer had fired
    sent,           \* responses the call's goroutine has sent
    writers,        \* per channel: goroutines that have sent on it
    reads,          \* per channel: number of values received from it
    observed,       \* per call: messages the event loop has handled
    servedDuring,   \* a tick or key was handled while a backend call was running
    \* the provider registry: what lies outside the process
    build,          \* the provider.go of the build: "file" persists, "defaults" does not
    envKeys,        \* the environment: the variables that are set, and their values
    inPath,         \* the claude executable is found in PATH
    diskOk,         \* the configuration file can be written
    file,           \* ~/.commitlore/providers.json
    \* the provider registry: the factory
    config,         \* ProviderFactory.config
    ret,            \* what the last operation returned
    \* the provider screen and the provider of AppModel
    providerConfig, \* ProviderModel.providerConfig (providers is its Providers)
    cursor, loading,
    appErrorMsg,    \* AppModel.errorMsg
    llmProviderType,\* BaseModel.llmProviderType
    llmProvider,    \* BaseModel.llmProvider
    asyncWrapper,   \* the provider inside TopicModel's and ContentModel's asyncWrapper
    providerErrorMsg, \* ProviderModel's errorMsg
    pending,        \* commands that have not run and messages not yet handled
    results,        \* what loadProviders and saveProviderConfig have returned
    \* history
    picked,         \* the provider last selected in the provider screen
    servedBy,       \* the provider that ran an LLM operation since the last reload
    \* one backend and the service or executable behind it
    backend,        \* the LLMProvider the call is made on
    outside,        \* what the service or executable does with each request
    llmCall,        \* the method last called and its arguments
    llmResult,      \* what the method returned
    \* the git layer: the file system and the repository
    dotGit,         \* the directories that hold a .git entry
    cwd,            \* the working directory of the process
    repo,           \* the commits git log lists from HEAD, newest first
    gitCall,        \* the function of git.go last called and its arguments
    gitResult,      \* what it returned
    \* the list screens
    listingModel,   \* ListingModel: the commits, the cursor and the selection
    topicCursor,    \* TopicModel.cursor
    formatCursor,   \* FormatModel.cursor
    \* the keyboard of the content screen
    textarea,       \* ContentModel.textarea: the characters of the prompt
    quit            \* AppModel.Update has returned tea.Quit

uiVars == <<currentView, selected, isExtracting, topicErrorMsg, topics,
            isGenerating, contentErrorMsg, generatedContent,
            showFinalOutput, statusMessage>>
cmdVars == <<splashPending, nextPending, tickPending>>
callVars == <<nCalls, owner, phase, deadline, ctxErr, backendResult, respChan,
              waitPhase, waitMsg>>
chanVars == <<chanBuf, chanClosed>>
histVars == <<retWhen, sent, writers, reads, observed, servedDuring>>
worldVars == <<build, envKeys, inPath, diskOk, file>>
factoryVars == <<config, ret>>
baseVars == <<llmProvider, asyncWrapper, providerErrorMsg, servedBy>>
screenVars == <<providerConfig, cursor, loading, appErrorMsg, llmProviderType,
                pending, results, picked, baseVars>>
llmVars == <<backend, outside, llmCall, llmResult>>
gitVars == <<dotGit, cwd, repo, gitCall, gitResult>>
listVars == <<listingModel, topicCursor, formatCursor>>
editVars == <<textarea, quit>>
\* what neither the dispatcher nor the registry touches
coreVars == <<llmVars, gitVars, listVars, editVars>>
\* the application: the dispatcher, the registry and the provider screen
appVars == <<now, uiVars, cmdVars, uiBlockedOn, callVars, chanVars, panicked,
             histVars, worldVars, factoryVars, screenVars>>
regVars == <<worldVars, factoryVars, screenVars, coreVars>>
dispatchVars == <<now, uiVars, cmdVars, uiBlockedOn, callVars, chanVars, panicked,
                  histVars, coreVars>>
vars == <<dispatchVars, regVars>>

\* the dispatcher and the screens after NewAppModel, whatever the view
DispatchIdle ==
    /\ now = 0
    /\ selected = FALSE
    /\ isExtracting = FALSE /\ topicErrorMsg = "" /\ topics = <<>>
    /\ isGenerating = FALSE /\ contentErrorMsg = ""
    /\ generatedContent = "" /\ showFinalOutput = FALSE /\ statusMessage = ""
    /\ splashPending = TRUE /\ nextPending = 0 /\ tickPending = 0
    /\ uiBlockedOn = 0
    /\ nCalls = 0
    /\ owner = [c \in Calls |-> "none"]
    /\ phase = [c \in Calls |-> "idle"]
    /\ deadline = [c \in Calls |-> 0]
    /\ ctxErr = [c \in Calls |-> NoError]
    /\ backendResult = [c \in Calls |-> ZeroResponse]
    /\ respChan = [c \in Calls |-> 0]
    /\ waitPhase = [c \in Calls |-> "idle"]
    /\ waitMsg = [c \in Calls |-> [Content |-> "", Error |-> ""]]
    /\ chanBuf = [ch \in Calls |-> <<>>]
    /\ chanClosed = [ch \in Calls |-> FALSE]
    /\ panicked = FALSE
    /\ retWhen = [c \in Calls |-> "never"]
    /\ sent = [c \in Calls |-> <<>>]
    /\ writers = [ch \in Calls |-> {}]
    /\ reads = [ch \in Calls |-> 0]
    /\ observed = [c \in Calls |-> <<>>]
    /\ servedDuring = FALSE

\* the dispatcher and the screens after NewAppModel
DispatchInit == currentView = "SplashView" /\ DispatchIdle

\* the provider screen is closed and no provider has been made
ScreenIdle ==
    /\ providerConfig = NoConfig /\ cursor = 0 /\ loading = TRUE
    /\ appErrorMsg = <<>> /\ providerErrorMsg = <<>>
    /\ llmProviderType = "" /\ llmProvider = "" /\ asyncWrapper = ""
    /\ pending = NoPending /\ results = {}
    /\ picked = NoPick /\ servedBy = ""

\* no method of a backend has been called
NoCall == [method |-> "", systemPrompt |-> "", userPrompt |-> ""]
NoResult == [content |-> <<>>, err |-> <<>>]

LLMIdle ==
    /\ backend = "" /\ outside = <<>> /\ llmCall = NoCall /\ llmResult = NoResult

\* (*CommitPage)(nil), and no function of git.go called yet
NoPage == [Commits |-> <<>>, PageNum |-> 0, PerPage |-> 0, HasMore |-> FALSE,
           Total |-> 0, Nil |-> TRUE]
NoGitCall == [fn |-> "", path |-> [abs |-> TRUE, segs |-> <<>>], perPage |-> 0,
              pageNum |-> 0]
NoGitResult ==
    [path |-> <<>>, found |-> FALSE, last |-> <<>>, page |-> NoPage, err |-> <<>>]

GitIdle ==
    /\ dotGit = {} /\ cwd = <<>> /\ repo = <<>>
    /\ gitCall = NoGitCall /\ gitResult = NoGitResult

\* NewListingModel over a repository of n commits
NewListingModel(n) ==
    [commits |-> n, cursor |-> 0, viewport |-> 0, selectedCommits |-> {},
     selectionMode |-> FALSE, rangeStart |-> -1, flashLimit |-> FALSE,
     flashTimers |-> 0]

ListIdle ==
    /\ listingModel = NewListingModel(0) /\ topicCursor = 0 /\ formatCursor = 0

\* nothing outside the dispatcher and the registry has run
\* NewContentModel: the prompt is empty; and the program has not been quit
EditIdle == textarea = <<>> /\ quit = FALSE

CoreIdle == LLMIdle /\ GitIdle /\ ListIdle /\ EditIdle

\* no registry operation has run and the provider screen is closed
RegIdle ==
    /\ build = "defaults" /\ envKeys = Environ({}, "") /\ inPath = FALSE /\ diskOk = TRUE
    /\ file = NoFile("absent")
    /\ config = NoConfig /\ ret = NoRet
    /\ ScreenIdle

Init == DispatchInit /\ RegIdle /\ CoreIdle

\* ---- the dispatcher ------------------------------------------------------

\* mutant: every call is given the same channel
SharedResponseChannel(c) == 1

\* CreateLLMResponseChannel: make(chan LLMResponse, 1), a new channel per call
CreateLLMResponseChannel(c) == c

\* mutant: the call is made on the UI thread, which waits for it
UiRunsCall(c) == c

\* the go statement: the caller goes on at once, it does not run the call itself
UiAfterDispatch(c) == 0

\* context.WithTimeout(ctx, a.timeout) taken at time t
DeadlineOf(t) == t + TimeoutTicks

\* mutant: the timer fires one tick early
DeadlineReachedEarly(c) == now + 1 >= deadline[c]

\* the timer of timeoutCtx can fire
DeadlineReached(c) == now >= deadline[c]

\* LLMResponse{Content: content, Error: err}
BackendResponse(c) ==
    [Content |-> backendResult[c].Content, Error |-> backendResult[c].Error]

\* mutant: the Timeout keeps the content the backend returned
TimeoutResponseWithContent(c) ==
    [Content |-> backendResult[c].Content, Error |-> DeadlineExceeded]

\* LLMResponse{Content: "", Error: context.DeadlineExceeded}
TimeoutResponse(c) == [Content |-> "", Error |-> DeadlineExceeded]

\* mutant: the channel has no buffer and no receiver is ready
CanSendUnbuffered(ch) == chanClosed[ch]

\* the first case of the select can proceed: a send on a closed channel
\* proceeds too (and panics)
CanSend(ch) == Len(chanBuf[ch]) < ChanCap \/ chanClosed[ch]

\* the context of a goroutine that has returned: the deferred cancel() has
\* run and the context with its timer is gone
Released == "released"

\* the second case of the select can proceed
CtxDone(c) == ctxErr[c] # NoError

\* mutant: the error text is never filled in
ToMsgNoError(r) == [Content |-> r.Content, Error |-> ""]

\* WaitForLLMResponse: LLMResponse -> LLMResponseMsg
ToMsg(r) ==
    [Content |-> r.Content,
     Error |-> IF r.Error # NoError THEN ErrorText(r.Error) ELSE ""]

\* the effect of GenerateContentWithSystemPromptAsync (and of
\* GenerateContentAsync, whose body is the same) followed by
\* WaitForLLMResponse, as called by the screen scr for its call c
StartCall(c, scr) ==
    /\ nCalls' = c
    /\ owner' = [owner EXCEPT ![c] = scr]
    /\ respChan' = [respChan EXCEPT ![c] = CreateLLMResponseChannel(c)]
    /\ phase' = [phase EXCEPT ![c] = "spawned"]
    /\ waitPhase' = [waitPhase EXCEPT ![c] = "waiting"]
    /\ uiBlockedOn' = UiAfterDispatch(c)
    /\ UNCHANGED <<deadline, ctxErr, backendResult, waitMsg>>

\* the goroutine starts: it creates timeoutCtx and calls the provider
GoStart(c) ==
    /\ UNCHANGED regVars
    /\ ~panicked
    /\ phase[c] = "spawned"
    /\ deadline' = [deadline EXCEPT ![c] = DeadlineOf(now)]
    /\ phase' = [phase EXCEPT ![c] = "call"]
    /\ UNCHANGED <<now, uiVars, cmdVars, uiBlockedOn, nCalls, owner, ctxErr,
                   backendResult, respChan, waitPhase, waitMsg, chanVars,
                   panicked, histVars>>

\* the provider returns r to the goroutine
BackendReturn(c, r) ==
    /\ UNCHANGED regVars
    /\ ~panicked
    /\ phase[c] = "call"
    /\ backendResult' = [backendResult EXCEPT ![c] = r]
    /\ phase' = [phase EXCEPT ![c] = "select"]
    /\ retWhen' = [retWhen EXCEPT ![c] =
                      IF ctxErr[c] = DeadlineExceeded THEN "fired"
                      ELSE IF now < deadline[c] THEN "early" ELSE "late"]
    /\ UNCHANGED <<now, uiVars, cmdVars, uiBlockedOn, nCalls, owner, deadline,
                   ctxErr, respChan, waitPhase, waitMsg, chanVars, panicked,
                   sent, writers, reads, observed, servedDuring>>

\* the timer of timeoutCtx fires: Done() is closed, Err() is DeadlineExceeded
DeadlineFire(c) ==
    /\ UNCHANGED regVars
    /\ ~panicked
    /\ phase[c] \in {"call", "select"}
    /\ ctxErr[c] = NoError
    /\ DeadlineReached(c)
    /\ ctxErr' = [ctxErr EXCEPT ![c] = DeadlineExceeded]
    /\ UNCHANGED <<now, uiVars, cmdVars, uiBlockedOn, nCalls, owner, phase,
                   deadline, backendResult, respChan, waitPhase, waitMsg,
                   chanVars, panicked, histVars>>

\* the goroutine sends r on its channel and returns: the deferred cancel()
\* and close(responseChan) run
SendAndExit(c, r) ==
    LET ch == respChan[c] IN
    /\ IF chanClosed[ch]
          THEN /\ panicked' = TRUE
               /\ UNCHANGED <<chanVars, sent, writers, phase, ctxErr, deadline,
                              uiBlockedOn>>
          ELSE /\ chanBuf' = [chanBuf EXCEPT ![ch] = Append(@, r)]
               /\ chanClosed' = [chanClosed EXCEPT ![ch] = TRUE]
               /\ sent' = [sent EXCEPT ![c] = Append(@, r)]
               /\ writers' = [writers EXCEPT ![ch] = @ \cup {c}]
               /\ phase' = [phase EXCEPT ![c] = "done"]
               /\ ctxErr' = [ctxErr EXCEPT ![c] = Released]
               /\ deadline' = [deadline EXCEPT ![c] = 0]
               /\ uiBlockedOn' = IF uiBlockedOn = c THEN 0 ELSE uiBlockedOn
               /\ UNCHANGED panicked
    /\ UNCHANGED <<now, uiVars, cmdVars, nCalls, owner, backendResult,
                   respChan, waitPhase, waitMsg, retWhen, reads, observed,
                   servedDuring>>

\* the goroutine returns without sending
ExitOnly(c) ==
    LET ch == respChan[c] IN
    /\ ctxErr' = [ctxErr EXCEPT ![c] = Released]
    /\ deadline' = [deadline EXCEPT ![c] = 0]
    /\ IF chanClosed[ch]
          THEN /\ panicked' = TRUE
               /\ UNCHANGED <<chanVars, phase, uiBlockedOn>>
          ELSE /\ chanClosed' = [chanClosed EXCEPT ![ch] = TRUE]
               /\ phase' = [phase EXCEPT ![c] = "done"]
               /\ uiBlockedOn' = IF uiBlockedOn = c THEN 0 ELSE uiBlockedOn
               /\ UNCHANGED <<chanBuf, panicked>>
    /\ UNCHANGED <<now, uiVars, cmdVars, nCalls, owner, backendResult,
                   respChan, waitPhase, waitMsg, histVars>>

\* mutant: the result is sent and the goroutine goes on to send the Timeout
\* as well
SelectSendThenGoOn(c) ==
    LET ch == respChan[c] IN
    /\ UNCHANGED regVars
    /\ ~panicked
    /\ phase[c] = "select"
    /\ CanSend(ch)
    /\ IF chanClosed[ch]
          THEN /\ panicked' = TRUE
               /\ UNCHANGED <<chanBuf, sent, writers, phase>>
          ELSE /\ chanBuf' = [chanBuf EXCEPT ![ch] = Append(@, BackendResponse(c))]
               /\ sent' = [sent EXCEPT ![c] = Append(@, BackendResponse(c))]
               /\ writers' = [writers EXCEPT ![ch] = @ \cup {c}]
               /\ phase' = [phase EXCEPT ![c] = "timeout"]
               /\ UNCHANGED panicked
    /\ UNCHANGED <<now, uiVars, cmdVars, uiBlockedOn, nCalls, owner, deadline,
                   ctxErr, backendResult, respChan, waitPhase, waitMsg,
                   chanClosed, retWhen, reads, observed, servedDuring>>

\* select, first case: responseChan <- LLMResponse{Content: content, Error: err}
SelectSend(c) ==
    /\ UNCHANGED regVars
    /\ ~panicked
    /\ phase[c] = "select"
    /\ CanSend(respChan[c])
    /\ SendAndExit(c, BackendResponse(c))

\* mutant: the error is compared with context.Canceled
ErrIsCanceled(c) == ctxErr[c] = "context.Canceled"

\* timeoutCtx.Err() == context.DeadlineExceeded
ErrIsDeadline(c) == ctxErr[c] = DeadlineExceeded

\* select, second case: <-timeoutCtx.Done(); without DeadlineExceeded nothing
\* is sent and the goroutine returns
SelectDone(c) ==
    /\ UNCHANGED regVars
    /\ ~panicked
    /\ phase[c] = "select"
    /\ CtxDone(c)
    /\ IF ErrIsDeadline(c)
          THEN /\ phase' = [phase EXCEPT ![c] = "timeout"]
               /\ UNCHANGED <<now, uiVars, cmdVars, uiBlockedOn, nCalls, owner,
                              deadline, ctxErr, backendResult, respChan, waitPhase,
                              waitMsg, chanVars, panicked, histVars>>
          ELSE ExitOnly(c)

\* inside the second case: responseChan <- LLMResponse{"", DeadlineExceeded}
SendTimeout(c) ==
    /\ UNCHANGED regVars
    /\ ~panicked
    /\ phase[c] = "timeout"
    /\ CanSend(respChan[c])
    /\ SendAndExit(c, TimeoutResponse(c))

\* the command of WaitForLLMResponse: response := <-responseChan
WaitReceive(c) ==
    LET ch == respChan[c] IN
    /\ UNCHANGED regVars
    /\ ~panicked
    /\ waitPhase[c] = "waiting"
    /\ \/ /\ Len(chanBuf[ch]) > 0
          /\ waitMsg' = [waitMsg EXCEPT ![c] = ToMsg(Head(chanBuf[ch]))]
          /\ chanBuf' = [chanBuf EXCEPT ![ch] = Tail(@)]
          /\ reads' = [reads EXCEPT ![ch] = @ + 1]
       \/ /\ Len(chanBuf[ch]) = 0
          /\ chanClosed[ch]
          /\ waitMsg' = [waitMsg EXCEPT ![c] = ToMsg(ZeroResponse)]
          /\ UNCHANGED <<chanBuf, reads>>
    /\ waitPhase' = [waitPhase EXCEPT ![c] = "ready"]
    /\ UNCHANGED <<now, uiVars, cmdVars, uiBlockedOn, nCalls, owner, phase,
                   deadline, ctxErr, backendResult, respChan, chanClosed,
                   panicked, retWhen, sent, writers, observed, servedDuring>>

\* ---- the screens ---------------------------------------------------------

\* NewTopicModel / NewContentModel: base.llmProvider is never nil (NewAppModel
\* falls back to the mock provider), so every screen has a wrapper
asyncWrapperIsNil == FALSE

\* ContentModel.isEditingPrompt: set to true by the constructor and by
\* SetContext*, never set to false
isEditingPrompt == TRUE

\* TopicModel.Update: strings.Split(msg.Content, ",") and TrimSpace; the
\* contents of this model hold no comma, so the result is the one segment
SplitTopics(content) == <<content>>

\* some call's backend call is running while the event loop handles a message
Served == servedDuring \/ \E c \in Calls : phase[c] = "call"

\* TopicModel.ExtractTopics, called by handleNext in the listing view
ExtractTopics ==
    IF asyncWrapperIsNil
       THEN /\ topicErrorMsg' = "LLM provider not configured"
            /\ UNCHANGED <<isExtracting, topics, tickPending,
                           uiBlockedOn, callVars>>
       ELSE /\ nCalls < MaxCalls
            /\ isExtracting' = TRUE
            /\ topicErrorMsg' = ""
            /\ topics' = <<>>
            /\ StartCall(nCalls + 1, "topic")
            /\ tickPending' = tickPending + 1

\* ContentModel.Update, plain enter, followed by generateContent
GenerateContent ==
    /\ isGenerating' = TRUE
    /\ tickPending' = tickPending + 1
    /\ IF asyncWrapperIsNil
          THEN /\ contentErrorMsg' = "LLM provider not configured"
               /\ UNCHANGED <<generatedContent, uiBlockedOn, callVars>>
          ELSE /\ nCalls < MaxCalls
               /\ contentErrorMsg' = ""
               /\ generatedContent' = ""
               /\ StartCall(nCalls + 1, "content")

\* AppModel.Update(tea.KeyMsg): delegated to the current screen
UpdateKey(k) ==
    /\ UNCHANGED regVars
    /\ ~panicked
    /\ uiBlockedOn = 0
    /\ servedDuring' = Served
    /\ UNCHANGED <<now, splashPending, chanVars, panicked, retWhen, sent, writers,
                   reads, observed>>
    /\ CASE currentView = "SplashView" /\ k = "enter" ->
              /\ nextPending < MaxPending
              /\ nextPending' = nextPending + 1
              /\ UNCHANGED <<uiVars, tickPending, uiBlockedOn, callVars>>
         [] currentView = "ListingView" /\ k = "v" ->
              /\ selected' = ~selected
              /\ UNCHANGED <<currentView, isExtracting, topicErrorMsg,
                             topics, isGenerating, contentErrorMsg,
                             generatedContent, showFinalOutput, statusMessage,
                             nextPending, tickPending, uiBlockedOn, callVars>>
         [] currentView = "ListingView" /\ k = "n" /\ selected ->
              /\ nextPending < MaxPending
              /\ nextPending' = nextPending + 1
              /\ UNCHANGED <<uiVars, tickPending, uiBlockedOn, callVars>>
         [] currentView = "TopicSelectionView" /\ ~isExtracting /\ k = "enter"
               /\ Len(topics) > 0 ->
              /\ nextPending < MaxPending
              /\ nextPending' = nextPending + 1
              /\ UNCHANGED <<uiVars, tickPending, uiBlockedOn, callVars>>
         [] currentView = "FormatSelectionView" /\ k = "enter" ->
              /\ nextPending < MaxPending
              /\ nextPending' = nextPending + 1
              /\ UNCHANGED <<uiVars, tickPending, uiBlockedOn, callVars>>
         [] currentView = "ContentCreationView" /\ ~isGenerating /\ k = "enter"
               /\ isEditingPrompt /\ ~showFinalOutput ->
              /\ GenerateContent
              /\ UNCHANGED <<currentView, selected, isExtracting, topicErrorMsg, topics, showFinalOutput, statusMessage,
                             nextPending>>
         [] OTHER ->
              \* ignored, or passed to the text area or the viewport
              UNCHANGED <<uiVars, nextPending, tickPending, uiBlockedOn, callVars>>

\* AppModel.Update(NextMsg): handleNext
UpdateNext ==
    /\ UNCHANGED regVars
    /\ ~panicked
    /\ uiBlockedOn = 0
    /\ nextPending > 0
    /\ nextPending' = nextPending - 1
    /\ UNCHANGED <<now, splashPending, chanVars, panicked, histVars>>
    /\ CASE currentView = "SplashView" ->
              /\ currentView' = "ListingView"
              /\ UNCHANGED <<selected, isExtracting, topicErrorMsg, topics,
                             isGenerating, contentErrorMsg,
                             generatedContent, showFinalOutput, statusMessage,
                             tickPending, uiBlockedOn, callVars>>
         [] currentView = "ListingView" ->
              /\ ExtractTopics
              /\ currentView' = "TopicSelectionView"
              /\ UNCHANGED <<selected, isGenerating, contentErrorMsg,
                             generatedContent, showFinalOutput, statusMessage>>
         [] currentView = "TopicSelectionView" ->
              /\ currentView' = "FormatSelectionView"
              /\ UNCHANGED <<selected, isExtracting, topicErrorMsg, topics,
                             isGenerating, contentErrorMsg,
                             generatedContent, showFinalOutput, statusMessage,
                             tickPending, uiBlockedOn, callVars>>
         [] currentView = "FormatSelectionView" ->
              \* SetContextWithCommits
              /\ showFinalOutput' = FALSE
              /\ currentView' = "ContentCreationView"
              /\ UNCHANGED <<selected, isExtracting, topicErrorMsg, topics,
                             isGenerating, contentErrorMsg,
                             generatedContent, statusMessage,
                             tickPending, uiBlockedOn, callVars>>
         [] OTHER ->
              UNCHANGED <<uiVars, tickPending, uiBlockedOn, callVars>>

\* AppModel.Update(splashTimerMsg): the splash screen asks for the next view
UpdateSplashTimer ==
    /\ UNCHANGED regVars
    /\ ~panicked
    /\ uiBlockedOn = 0
    /\ splashPending
    /\ splashPending' = FALSE
    /\ IF currentView = "SplashView"
          THEN nextPending < MaxPending /\ nextPending' = nextPending + 1
          ELSE UNCHANGED nextPending
    /\ UNCHANGED <<now, uiVars, tickPending, uiBlockedOn, callVars, chanVars,
                   panicked, histVars>>

\* AppModel.Update(TickMsg): the hourglass of the busy screen advances and
\* the tick is armed again
UpdateTick ==
    /\ UNCHANGED regVars
    /\ ~panicked
    /\ uiBlockedOn = 0
    /\ tickPending > 0
    /\ servedDuring' = Served
    /\ UNCHANGED <<now, splashPending, nextPending, uiBlockedOn, callVars, chanVars,
                   panicked, retWhen, sent, writers, reads, observed>>
    /\ CASE currentView = "TopicSelectionView" /\ isExtracting ->
              UNCHANGED <<uiVars, tickPending>>
         [] currentView = "ContentCreationView" /\ isGenerating ->
              UNCHANGED <<uiVars, tickPending>>
         [] OTHER ->
              /\ tickPending' = tickPending - 1
              /\ UNCHANGED uiVars

\* AppModel.Update(llm.LLMResponseMsg) for the message of call c's command,
\* delegated to the current screen
UpdateLLMResponse(c) ==
    LET msg == waitMsg[c] IN
    /\ UNCHANGED regVars
    /\ ~panicked
    /\ uiBlockedOn = 0
    /\ waitPhase[c] = "ready"
    /\ waitPhase' = [waitPhase EXCEPT ![c] = "handled"]
    /\ observed' = [observed EXCEPT ![c] = Append(@, msg)]
    /\ UNCHANGED <<now, cmdVars, uiBlockedOn, nCalls, owner, phase, deadline, ctxErr,
                   backendResult, respChan, waitMsg, chanVars, panicked,
                   retWhen, sent, writers, reads, servedDuring>>
    /\ CASE currentView = "TopicSelectionView" ->
              /\ isExtracting' = FALSE
              /\ IF msg.Error # ""
                    THEN topicErrorMsg' = msg.Error /\ topics' = <<>>
                    ELSE topicErrorMsg' = "" /\ topics' = SplitTopics(msg.Content)
              /\ UNCHANGED <<currentView, selected, isGenerating,
                             contentErrorMsg, generatedContent,
                             showFinalOutput, statusMessage>>
         [] currentView = "ContentCreationView" ->
              /\ isGenerating' = FALSE
              /\ IF msg.Error # ""
                    THEN /\ contentErrorMsg' = msg.Error
                         /\ generatedContent' =
                               IF ~showFinalOutput THEN "" ELSE generatedContent
                         /\ UNCHANGED <<showFinalOutput, statusMessage>>
                    ELSE /\ contentErrorMsg' = ""
                         /\ IF showFinalOutput /\ msg.Content # generatedContent
                               THEN /\ statusMessage' = msg.Content
                                    /\ UNCHANGED <<generatedContent, showFinalOutput>>
                               ELSE /\ statusMessage' = ""
                                    /\ generatedContent' = msg.Content
                                    /\ showFinalOutput' = TRUE
              /\ UNCHANGED <<currentView, selected, isExtracting, topicErrorMsg, topics>>
         [] OTHER ->
              UNCHANGED uiVars

\* ---- the clock ------------------------------------------------------------

Advance ==
    /\ UNCHANGED regVars
    /\ ~panicked
    /\ now < MaxTime
    /\ now' = now + 1
    /\ UNCHANGED <<uiVars, cmdVars, uiBlockedOn, callVars, chanVars, panicked, histVars>>

Next ==
    \/ Advance
    \/ \E c \in Calls : GoStart(c)
    \/ \E c \in Calls : \E r \in BackendResults : BackendReturn(c, r)
    \/ \E c \in Calls : DeadlineFire(c)
    \/ \E c \in Calls : SelectSend(c)
    \/ \E c \in Calls : SelectDone(c)
    \/ \E c \in Calls : SendTimeout(c)
    \/ \E c \in Calls : WaitReceive(c)
    \/ \E k \in Keys : UpdateKey(k)
    \/ UpdateNext
    \/ UpdateSplashTimer
    \/ UpdateTick
    \/ \E c \in Calls : UpdateLLMResponse(c)

Spec == Init /\ [][Next]_vars

\* What the schedulers guarantee: a goroutine that can run does run, a timer
\* whose time has come fires, time passes, and the event loop handles the
\* messages its commands produce.  Nothing makes a backend return or a user
\* press a key.
Fairness ==
    /\ WF_vars(Advance)
    /\ \A c \in Calls :
          /\ WF_vars(GoStart(c))
          /\ WF_vars(DeadlineFire(c))
          /\ WF_vars(SelectSend(c) \/ SelectDone(c))
          /\ WF_vars(SendTimeout(c))
          /\ WF_vars(WaitReceive(c))
          /\ WF_vars(UpdateLLMResponse(c))
    /\ WF_vars(UpdateNext)
    /\ WF_vars(UpdateSplashTimer)
    /\ WF_vars(UpdateTick)

FairSpec == Spec /\ Fairness

\* ---- the provider registry ---------------------------------------------

APIProviderType == "api"
CLIProviderType == "cli"
LocalProviderType == "local"

\* a nil error, and an error as the pieces fmt.Errorf puts together
nil == <<>>

\* the ids of the descriptors a configuration file holds here: one with a
\* backend, one without, and "a", an id no constructor knows; the other
\* families come with the defaults
ProviderIDs == {"claude-api", "openai-api", "a"}

\* the default descriptor of an id: display name, family and Config["api_key"]
\* ("" when the map has no such key)
NameOf(id) ==
    CASE id = "claude-api" -> "Claude API"
      [] id = "claude-cli" -> "Claude CLI"
      [] id = "openai-api" -> "OpenAI API"
      [] id = "gemini-api" -> "Gemini API"
      [] id = "ollama" -> "Ollama"
      [] OTHER -> "A"

TypeOf(id) ==
    CASE id \in {"claude-api", "openai-api", "gemini-api", "a"} -> APIProviderType
      [] id = "claude-cli" -> CLIProviderType
      [] OTHER -> LocalProviderType

ApiKeyOf(id) ==
    CASE id = "claude-api" -> "ANTHROPIC_API_KEY"
      [] id \in {"openai-api", "a"} -> "OPENAI_API_KEY"
      [] id = "gemini-api" -> "GEMINI_API_KEY"
      [] OTHER -> ""

EnvNames == {"ANTHROPIC_API_KEY", "OPENAI_API_KEY"}

\* os.Getenv: the value of a variable, "" when it is not set
Getenv(name) == IF name \in DOMAIN envKeys THEN envKeys[name] ELSE ""

\* type Provider
Provider(id, enabled, available) ==
    [ID |-> id, Name |-> NameOf(id), Type |-> TypeOf(id), Enabled |-> enabled,
     Available |-> available, ApiKey |-> ApiKeyOf(id)]

\* DefaultProviderConfig: openai-api is enabled in the build that does not
\* persist ("Now implemented") and disabled in the build that does
DefaultProviderConfig ==
    [Providers |-> << Provider("claude-api", TRUE, FALSE),
                      Provider("claude-cli", TRUE, FALSE),
                      Provider("openai-api", build = "defaults", FALSE),
                      Provider("gemini-api", FALSE, FALSE),
                      Provider("ollama", FALSE, FALSE) >>,
     ActiveProviderID |-> "claude-cli", Nil |-> FALSE]

\* json.MarshalIndent(config): the record with the fields' json names
Marshal(cfg) ==
    [state |-> "record",
     providers |-> [i \in DOMAIN cfg.Providers |->
                       [id |-> cfg.Providers[i].ID,
                        name |-> cfg.Providers[i].Name,
                        type |-> cfg.Providers[i].Type,
                        enabled |-> cfg.Providers[i].Enabled,
                        available |-> cfg.Providers[i].Available,
                        api_key |-> cfg.Providers[i].ApiKey]],
     active_provider_id |-> cfg.ActiveProviderID]

\* json.Unmarshal(data, &config)
Unmarshal(data) ==
    [Providers |-> [i \in DOMAIN data.providers |->
                       [ID |-> data.providers[i].id,
                        Name |-> data.providers[i].name,
                        Type |-> data.providers[i].type,
                        Enabled |-> data.providers[i].enabled,
                        Available |-> data.providers[i].available,
                        ApiKey |-> data.providers[i].api_key]],
     ActiveProviderID |-> data.active_provider_id, Nil |-> FALSE]

NoRecord == {NoFile(st) : st \in {"absent", "corrupt", "unreadable"}}

\* SaveProviderConfig of the build that does not persist: a no-op
SaveNothing(cfg) == [file |-> file, err |-> nil]

\* SaveProviderConfig of the build that persists: what the file is afterwards,
\* and the error
SaveToFile(cfg) ==
    IF diskOk
       THEN [file |-> Marshal(cfg), err |-> nil]
       ELSE [file |-> file,
             err |-> <<"failed to write config file: ", "permission denied">>]

\* SaveProviderConfig, as the build has it
SaveProviderConfig(cfg) ==
    IF build = "defaults" THEN SaveNothing(cfg) ELSE SaveToFile(cfg)

\* LoadProviderConfig of the build that does not persist: the defaults
LoadDefaults == [config |-> DefaultProviderConfig, file |-> file, err |-> nil]

\* LoadProviderConfig of the build that persists: the registry, what the file
\* is afterwards, and the error
LoadFromFile ==
    CASE file.state = "absent" ->
              LET saved == SaveProviderConfig(DefaultProviderConfig) IN
              IF saved.err # nil
                 THEN [config |-> NoConfig, file |-> saved.file, err |-> saved.err]
                 ELSE [config |-> DefaultProviderConfig, file |-> saved.file,
                       err |-> nil]
      [] file.state = "unreadable" ->
              [config |-> NoConfig, file |-> file,
               err |-> <<"failed to read config file: ", "permission denied">>]
      [] file.state = "corrupt" ->
              [config |-> NoConfig, file |-> file,
               err |-> <<"failed to unmarshal config: ", "invalid character">>]
      [] OTHER ->
              [config |-> Unmarshal(file), file |-> file, err |-> nil]

\* LoadProviderConfig, as the build has it
LoadProviderConfig ==
    IF build = "defaults" THEN LoadDefaults ELSE LoadFromFile

\* mutant: a variable that is set counts, whatever its value
CheckProviderAvailabilityIfSet(p) ==
    CASE p.Type = APIProviderType ->
              IF p.ApiKey # "" THEN p.ApiKey \in DOMAIN envKeys ELSE FALSE
      [] p.Type = CLIProviderType ->
              IF p.ID = "claude-cli" THEN inPath ELSE FALSE
      [] p.Type = LocalProviderType -> FALSE
      [] OTHER -> FALSE

\* CheckProviderAvailability: the probe of the environment
CheckProviderAvailability(p) ==
    CASE p.Type = APIProviderType ->
              IF p.ApiKey # "" THEN Getenv(p.ApiKey) # "" ELSE FALSE
      [] p.Type = CLIProviderType ->
              IF p.ID = "claude-cli" THEN inPath ELSE FALSE
      [] p.Type = LocalProviderType -> FALSE
      [] OTHER -> FALSE

\* mutant: only the descriptors found available are kept
UpdateProviderAvailabilityKeepingFound(cfg) ==
    [Providers |-> SelectSeq([i \in DOMAIN cfg.Providers |->
                                [cfg.Providers[i] EXCEPT
                                    !.Available = CheckProviderAvailability(cfg.Providers[i])]],
                             LAMBDA p : p.Available),
     ActiveProviderID |-> cfg.ActiveProviderID, Nil |-> cfg.Nil]

\* UpdateProviderAvailability: every descriptor's Available is probed anew
UpdateProviderAvailability(cfg) ==
    [Providers |-> [i \in DOMAIN cfg.Providers |->
                       [cfg.Providers[i] EXCEPT
                           !.Available = CheckProviderAvailability(cfg.Providers[i])]],
     ActiveProviderID |-> cfg.ActiveProviderID, Nil |-> cfg.Nil]

\* the loop of GetAvailableProviders over the descriptors still to visit
RECURSIVE AppendAvailable(_, _)
AppendAvailable(ps, available) ==
    IF ps = <<>>
       THEN available
       ELSE AppendAvailable(Tail(ps),
                IF Head(ps).Enabled /\ Head(ps).Available
                   THEN Append(available, Head(ps))
                   ELSE available)

\* mutant: the enabled flag is not looked at
GetAvailableIgnoringEnabled(cfg) ==
    SelectSeq(cfg.Providers, LAMBDA p : p.Available)

\* GetAvailableProviders
GetAvailableProviders(cfg) == AppendAvailable(cfg.Providers, <<>>)

\* GetProviderByID: the index of the first descriptor with the id, 0 for nil
GetProviderByID(cfg, id) ==
    IF \E i \in DOMAIN cfg.Providers : cfg.Providers[i].ID = id
       THEN CHOOSE i \in DOMAIN cfg.Providers :
               /\ cfg.Providers[i].ID = id
               /\ \A j \in DOMAIN cfg.Providers : cfg.Providers[j].ID = id => i <= j
       ELSE 0

\* ---- the provider factory -----------------------------------------------

\* (nil, "", err) and (provider, name, nil)
Fail(err) == [provider |-> "nil", name |-> "", err |-> err]
Made(provider, name) == [provider |-> provider, name |-> name, err |-> nil]

\* mutant: the client is made without looking the executable up
NewClaudeCLIClientUnresolved == Made("ClaudeCLIClient", "")

\* llm.NewClaudeCLIClient
NewClaudeCLIClient ==
    IF inPath
       THEN Made("ClaudeCLIClient", "")
       ELSE Fail(<<"claude CLI not found in PATH: ", "executable file not found">>)

\* mutant: an id the switch does not know falls into the OpenAI case
createAPIProviderFallsThrough(p) ==
    CASE p.ID = "claude-api" ->
              IF p.ApiKey = ""
                 THEN Fail(<<"API key environment variable not configured">>)
                 ELSE IF Getenv(p.ApiKey) = ""
                         THEN Fail(<<"API key not found in environment variable ",
                                     p.ApiKey>>)
                         ELSE Made("ClaudeClient", "")
      [] p.ID = "gemini-api" -> Fail(<<"Gemini API provider not yet implemented">>)
      [] OTHER -> Fail(<<"OpenAI API provider not yet implemented">>)

\* createAPIProvider
createAPIProvider(p) ==
    CASE p.ID = "claude-api" ->
              IF p.ApiKey = ""
                 THEN Fail(<<"API key environment variable not configured">>)
                 ELSE IF Getenv(p.ApiKey) = ""
                         THEN Fail(<<"API key not found in environment variable ",
                                     p.ApiKey>>)
                         ELSE Made("ClaudeClient", "")
      [] p.ID = "openai-api" -> Fail(<<"OpenAI API provider not yet implemented">>)
      [] p.ID = "gemini-api" -> Fail(<<"Gemini API provider not yet implemented">>)
      [] OTHER -> Fail(<<"unsupported API provider: ", p.ID>>)

\* createCLIProvider
createCLIProvider(p) ==
    CASE p.ID = "claude-cli" -> NewClaudeCLIClient
      [] OTHER -> Fail(<<"unsupported CLI provider: ", p.ID>>)

\* createLocalProvider
createLocalProvider(p) ==
    CASE p.ID = "ollama" -> Fail(<<"Ollama provider not yet implemented">>)
      [] OTHER -> Fail(<<"unsupported local provider: ", p.ID>>)

\* createProvider: the switch on the family
createProvider(p) ==
    CASE p.Type = APIProviderType -> createAPIProvider(p)
      [] p.Type = CLIProviderType -> createCLIProvider(p)
      [] p.Type = LocalProviderType -> createLocalProvider(p)
      [] OTHER -> Fail(<<"unsupported provider type: ", p.Type>>)

\* mutant: the descriptor's id is left out of the errors
CreateActiveProviderNoID(cfg) ==
    LET i == GetProviderByID(cfg, cfg.ActiveProviderID) IN
    IF i = 0
       THEN Fail(<<"active provider not found">>)
       ELSE LET activeProvider == cfg.Providers[i] IN
            IF ~activeProvider.Enabled
               THEN Fail(<<"active provider is disabled">>)
               ELSE IF ~CheckProviderAvailability(activeProvider)
                       THEN Fail(<<"active provider is not available">>)
                       ELSE LET made == createProvider(activeProvider) IN
                            IF made.err # nil
                               THEN Fail(<<"failed to create provider: ">> \o made.err)
                               ELSE Made(made.provider, activeProvider.Name)

\* ProviderFactory.CreateActiveProvider
CreateActiveProvider(cfg) ==
    LET i == GetProviderByID(cfg, cfg.ActiveProviderID) IN
    IF i = 0
       THEN Fail(<<"active provider '", cfg.ActiveProviderID, "' not found">>)
       ELSE LET activeProvider == cfg.Providers[i] IN
            IF ~activeProvider.Enabled
               THEN Fail(<<"active provider '", activeProvider.ID, "' is disabled">>)
               ELSE IF ~CheckProviderAvailability(activeProvider)
                       THEN Fail(<<"active provider '", activeProvider.ID,
                                   "' is not available">>)
                       ELSE LET made == createProvider(activeProvider) IN
                            IF made.err # nil
                               THEN Fail(<<"failed to create provider '",
                                           activeProvider.ID, "': ">> \o made.err)
                               ELSE Made(made.provider, activeProvider.Name)

\* mutant: a disabled descriptor passes
CreateProviderSkipEnabled(cfg, providerID) ==
    LET i == GetProviderByID(cfg, providerID) IN
    IF i = 0
       THEN Fail(<<"provider '", providerID, "' not found">>)
       ELSE LET provider == cfg.Providers[i] IN
            IF ~CheckProviderAvailability(provider)
               THEN Fail(<<"provider '", provider.ID, "' is not available">>)
               ELSE LET made == createProvider(provider) IN
                    IF made.err # nil
                       THEN Fail(<<"failed to create provider '", provider.ID,
                                   "': ">> \o made.err)
                       ELSE Made(made.provider, provider.Name)

\* ProviderFactory.CreateProvider
CreateProvider(cfg, providerID) ==
    LET i == GetProviderByID(cfg, providerID) IN
    IF i = 0
       THEN Fail(<<"provider '", providerID, "' not found">>)
       ELSE LET provider == cfg.Providers[i] IN
            IF ~provider.Enabled
               THEN Fail(<<"provider '", provider.ID, "' is disabled">>)
               ELSE IF ~CheckProviderAvailability(provider)
                       THEN Fail(<<"provider '", provider.ID, "' is not available">>)
                       ELSE LET made == createProvider(provider) IN
                            IF made.err # nil
                               THEN Fail(<<"failed to create provider '", provider.ID,
                                           "': ">> \o made.err)
                               ELSE Made(made.provider, provider.Name)

\* ProviderFactory.SetActiveProvider: the registry and the file afterwards,
\* and the error
SetActiveProvider(cfg, providerID) ==
    LET i == GetProviderByID(cfg, providerID) IN
    IF i = 0
       THEN [config |-> cfg, file |-> file,
             err |-> <<"provider '", providerID, "' not found">>]
       ELSE LET provider == cfg.Providers[i] IN
            IF ~provider.Enabled
               THEN [config |-> cfg, file |-> file,
                     err |-> <<"provider '", providerID, "' is disabled">>]
               ELSE IF ~CheckProviderAvailability(provider)
                       THEN [config |-> cfg, file |-> file,
                             err |-> <<"provider '", providerID, "' is not available">>]
                       ELSE LET set == [cfg EXCEPT !.ActiveProviderID = providerID]
                                saved == SaveProviderConfig(set)
                            IN  IF saved.err # nil
                                   THEN [config |-> set, file |-> saved.file,
                                         err |-> <<"failed to save configuration: ">>
                                                    \o saved.err]
                                   ELSE [config |-> set, file |-> saved.file,
                                         err |-> nil]

\* ---- the registry's operations, one at a time ---------------------------

\* what an operation of the registry returned: the operation and its id, the
\* provider, display name and error, the list, the active id before the
\* operation, and the operation before it
Ret(op, id, provider, name, err, list, prev) ==
    [op |-> op, id |-> id, provider |-> provider, name |-> name, err |-> err,
     list |-> list, was |-> config.ActiveProviderID,
     prevOp |-> prev.op, prevId |-> prev.id, prevErr |-> prev.err]

\* the descriptors and registries a configuration file may hold
Descriptors == {Provider(id, e, a) : id \in ProviderIDs, e \in BOOLEAN, a \in BOOLEAN}

ProviderLists ==
    UNION { { ps \in [1..n -> Descriptors] :
                \A i, j \in 1..n : i # j => ps[i].ID # ps[j].ID } :
            n \in 0..MaxProviders }

Records ==
    { Marshal([Providers |-> ps, ActiveProviderID |-> a, Nil |-> FALSE]) :
        ps \in ProviderLists, a \in ProviderIDs }

\* the process starts in some environment, over some configuration file
FactoryInit ==
    /\ DispatchInit
    /\ build \in {"file", "defaults"}
    /\ envKeys \in {Environ(names, "secret") : names \in SUBSET EnvNames}
    /\ inPath \in BOOLEAN
    /\ diskOk \in BOOLEAN
    /\ file \in (IF build = "file" THEN NoRecord \cup Records
                                    ELSE {NoFile("absent")})
    /\ config = NoConfig /\ ret = NoRet
    /\ ScreenIdle
    /\ CoreIdle

\* NewProviderFactory(LoadProviderConfig()): at the start of the process, and
\* again after a SetActiveProvider or a SaveProviderConfig (a restart)
Load ==
    LET loaded == LoadProviderConfig IN
    /\ ret.op \in {"none", "SetActive", "Save"}
    /\ config' = loaded.config
    /\ file' = loaded.file
    /\ ret' = Ret("Load", "", "nil", "", loaded.err, <<>>, ret)
    /\ UNCHANGED <<dispatchVars, build, envKeys, inPath, diskOk, screenVars>>

\* an operation can be called on the factory's registry
Callable ==
    /\ ~config.Nil
    /\ ret.op \in {"Load", "Refresh"}
    /\ ret.prevOp \notin {"SetActive", "Save"}

Refresh ==
    /\ Callable /\ ret.op = "Load"
    /\ config' = UpdateProviderAvailability(config)
    /\ ret' = Ret("Refresh", "", "nil", "", nil, <<>>, ret)
    /\ UNCHANGED <<dispatchVars, worldVars, screenVars>>

CallCreateActive ==
    LET r == CreateActiveProvider(config) IN
    /\ Callable \/ (~config.Nil /\ ret.op = "SetActive")
    /\ ret' = Ret("CreateActive", config.ActiveProviderID, r.provider, r.name,
                  r.err, <<>>, ret)
    /\ UNCHANGED <<dispatchVars, worldVars, config, screenVars>>

CallCreate(id) ==
    LET r == CreateProvider(config, id) IN
    /\ Callable
    /\ ret' = Ret("Create", id, r.provider, r.name, r.err, <<>>, ret)
    /\ UNCHANGED <<dispatchVars, worldVars, config, screenVars>>

CallSetActive(id) ==
    LET r == SetActiveProvider(config, id) IN
    /\ Callable
    /\ config' = r.config
    /\ file' = r.file
    /\ ret' = Ret("SetActive", id, "nil", "", r.err, <<>>, ret)
    /\ UNCHANGED <<dispatchVars, build, envKeys, inPath, diskOk, screenVars>>

\* SaveProviderConfig(config), and once more
CallSave ==
    LET saved == SaveProviderConfig(config) IN
    /\ ~config.Nil
    /\ Callable \/ (ret.op \in {"SetActive", "Save"} /\ ret.prevOp # "Save")
    /\ file' = saved.file
    /\ ret' = Ret("Save", config.ActiveProviderID, "nil", "", saved.err, <<>>, ret)
    /\ UNCHANGED <<dispatchVars, build, envKeys, inPath, diskOk, config, screenVars>>

CallList ==
    /\ Callable
    /\ ret' = Ret("List", "", "nil", "", nil, GetAvailableProviders(config), ret)
    /\ UNCHANGED <<dispatchVars, worldVars, config, screenVars>>

FactoryNext ==
    \/ Load
    \/ Refresh
    \/ CallCreateActive
    \/ \E id \in ProviderIDs : CallCreate(id)
    \/ \E id \in ProviderIDs : CallSetActive(id)
    \/ CallSave
    \/ CallList

FactorySpec == FactoryInit /\ [][FactoryNext]_vars

\* ---- the probe and the constructors, on one descriptor -------------------

\* the descriptors probed: ids with and without a backend, every family and
\* one the code does not know, with and without Config["api_key"]
ProbeIDs == {"claude-api", "claude-cli", "ollama", "a"}
ProbeTypes == {APIProviderType, CLIProviderType, LocalProviderType, "remote"}
ProbeKeys == {"", "ANTHROPIC_API_KEY", "OPENAI_API_KEY"}

ProbeDescriptors ==
    { [ID |-> id, Name |-> NameOf(id), Type |-> type, Enabled |-> enabled,
       Available |-> available, ApiKey |-> key] :
         id \in ProbeIDs, type \in ProbeTypes, enabled \in BOOLEAN,
         available \in BOOLEAN, key \in ProbeKeys }

\* the environments: each variable unset, set to the empty string, or set
Environs == UNION { [names -> {"", "secret"}] : names \in SUBSET EnvNames }

\* a registry of one descriptor, in some environment
ProbeInit ==
    /\ DispatchInit
    /\ build \in {"file", "defaults"}
    /\ envKeys \in Environs
    /\ inPath \in BOOLEAN
    /\ diskOk = TRUE
    /\ file = NoFile("absent")
    /\ config \in { [Providers |-> <<d>>, ActiveProviderID |-> d.ID, Nil |-> FALSE] :
                      d \in ProbeDescriptors }
    /\ ret = NoRet
    /\ ScreenIdle
    /\ CoreIdle

\* UpdateProviderAvailability over the registry: the descriptor is probed
CallCheck ==
    /\ ret.op = "none"
    /\ config' = UpdateProviderAvailability(config)
    /\ ret' = Ret("Check", config.Providers[1].ID, "nil", "", nil, <<>>, ret)
    /\ UNCHANGED <<dispatchVars, worldVars, screenVars>>

\* createProvider on the descriptor just probed
CallConstruct ==
    LET r == createProvider(config.Providers[1]) IN
    /\ ret.op = "Check"
    /\ ret' = Ret("createProvider", config.Providers[1].ID, r.provider, r.name,
                  r.err, <<>>, ret)
    /\ UNCHANGED <<dispatchVars, worldVars, config, screenVars>>

ProbeNext ==
    \/ CallCheck
    \/ CallConstruct

ProbeSpec == ProbeInit /\ [][ProbeNext]_vars

\* ---- the provider screen and the provider of the application ------------

\* what the application's own screens hold; the provider screen leaves it alone
appRest == <<now, selected, isExtracting, topicErrorMsg, topics, isGenerating,
             contentErrorMsg, generatedContent, showFinalOutput, statusMessage,
             cmdVars, uiBlockedOn, callVars, chanVars, panicked, histVars,
             coreVars>>

\* the registries a configuration file written by the application holds: the
\* defaults with some provider active, one of them ("a") not in the list
SavedRecords ==
    { Marshal([DefaultProviderConfig EXCEPT !.ActiveProviderID = a]) :
        a \in {"claude-api", "claude-cli", "openai-api", "a"} }

\* the process starts in some environment, over some configuration file
ProviderInit ==
    /\ DispatchInit
    /\ build \in {"file", "defaults"}
    /\ envKeys \in {Environ({}, "secret"), Environ(EnvNames, "secret")}
    /\ inPath \in BOOLEAN
    /\ diskOk \in BOOLEAN
    /\ file \in (IF build = "file" THEN NoRecord \cup SavedRecords
                                    ELSE {NoFile("absent")})
    /\ config = NoConfig /\ ret = NoRet
    /\ ScreenIdle
    /\ CoreIdle

\* BaseModel.llmProviderType after CreateActiveProvider
ProviderTypeOf(created) ==
    IF created.err # nil THEN "Mock (No providers available)" ELSE created.name

\* mutant: what the factory returned is kept, an error or not
ProviderOfUnchecked(created) == created.provider

\* BaseModel.llmProvider after CreateActiveProvider
ProviderOf(created) ==
    IF created.err # nil THEN "mockLLMProvider" ELSE created.provider

\* the LoadProviderConfig that NewAppModel and reloadProvider begin with
LoadStep(loaded) == [op |-> "Load", id |-> "", err |-> loaded.err]

\* NewAppModel: the registry is loaded, probed, and the active provider built;
\* the screens are made from the base model, the topic and content screens
\* with a wrapper around its provider
NewAppModel ==
    LET loaded == LoadProviderConfig
        providerConfig0 == IF loaded.err # nil THEN DefaultProviderConfig
                                               ELSE loaded.config
        refreshed == UpdateProviderAvailability(providerConfig0)
        created == CreateActiveProvider(refreshed)
    IN  /\ llmProviderType = ""
        /\ file' = loaded.file
        /\ config' = refreshed
        /\ llmProviderType' = ProviderTypeOf(created)
        /\ llmProvider' = ProviderOf(created)
        /\ asyncWrapper' = ProviderOf(created)
        /\ ret' = Ret("NewAppModel", refreshed.ActiveProviderID, created.provider,
                      created.name, created.err, <<>>, LoadStep(loaded))
        /\ UNCHANGED <<dispatchVars, build, envKeys, inPath, diskOk, providerConfig,
                       cursor, loading, appErrorMsg, providerErrorMsg, pending,
                       results, picked, servedBy>>

\* the application runs
Started == llmProviderType # ""

\* SplashModel.Update, key p: the command that returns ProviderMsg
SplashKeyP ==
    /\ Started /\ currentView = "SplashView"
    /\ pending.ProviderMsg < MaxInFlight
    /\ pending' = [pending EXCEPT !.ProviderMsg = @ + 1]
    /\ UNCHANGED <<dispatchVars, worldVars, factoryVars, providerConfig, cursor,
                   loading, appErrorMsg, llmProviderType, results, picked, baseVars>>

\* AppModel.Update(ProviderMsg): the provider screen opens and loads
UpdateProviderMsg ==
    /\ pending.ProviderMsg > 0
    /\ IF currentView # "ProviderView"
          THEN /\ currentView' = "ProviderView"
               /\ pending.loadProviders < MaxInFlight
               /\ pending' = [pending EXCEPT !.ProviderMsg = @ - 1,
                                             !.loadProviders = @ + 1]
          ELSE /\ pending' = [pending EXCEPT !.ProviderMsg = @ - 1]
               /\ UNCHANGED currentView
    /\ UNCHANGED <<appRest, worldVars, factoryVars, providerConfig, cursor,
                   loading, appErrorMsg, llmProviderType, results, picked, baseVars>>

\* mutant: the command stores the registry it loaded into the screen itself
loadProvidersInPlace ==
    LET loaded == LoadProviderConfig IN
    /\ pending.loadProviders > 0
    /\ pending' = [pending EXCEPT !.loadProviders = @ - 1]
    /\ file' = loaded.file
    /\ loaded.err = nil
    /\ providerConfig' = UpdateProviderAvailability(loaded.config)
    /\ UNCHANGED <<dispatchVars, build, envKeys, inPath, diskOk, factoryVars,
                   cursor, loading, appErrorMsg, llmProviderType, results, picked,
                   baseVars>>

\* the command ProviderModel.loadProviders runs
loadProviders ==
    LET loaded == LoadProviderConfig IN
    /\ pending.loadProviders > 0
    /\ pending' = [pending EXCEPT !.loadProviders = @ - 1]
    /\ file' = loaded.file
    /\ Cardinality(results) < MaxInFlight
    /\ results' = results \cup
          { IF loaded.err # nil
               THEN [type |-> "ErrorMsg", config |-> NoConfig,
                     Error |-> <<"Failed to load providers: ">> \o loaded.err]
               ELSE [type |-> "providerLoadedMsg", config |-> loaded.config,
                     Error |-> nil] }
    /\ UNCHANGED <<dispatchVars, build, envKeys, inPath, diskOk, factoryVars,
                   providerConfig, cursor, loading, appErrorMsg, llmProviderType,
                   picked, baseVars>>

\* the command ProviderModel.saveProviderConfig runs
saveProviderConfig ==
    LET saved == SaveProviderConfig(providerConfig) IN
    /\ pending.saveProviderConfig > 0
    /\ pending' = [pending EXCEPT !.saveProviderConfig = @ - 1]
    /\ file' = saved.file
    /\ results' = IF saved.err # nil
                     THEN results \cup
                            {[type |-> "ErrorMsg", config |-> NoConfig,
                              Error |-> <<"Failed to save providers: ">> \o saved.err]}
                     ELSE results
    /\ UNCHANGED <<dispatchVars, build, envKeys, inPath, diskOk, factoryVars,
                   providerConfig, cursor, loading, appErrorMsg, llmProviderType,
                   picked, baseVars>>

\* AppModel.Update(ErrorMsg): kept by AppModel, no screen is given the message
UpdateErrorMsg(msg) ==
    /\ msg \in results /\ msg.type = "ErrorMsg"
    /\ results' = results \ {msg}
    /\ appErrorMsg' = msg.Error
    /\ UNCHANGED <<dispatchVars, worldVars, factoryVars, providerConfig, cursor,
                   loading, llmProviderType, pending, picked, baseVars>>

\* AppModel.Update(providerLoadedMsg): delegated to the current screen, and
\* ProviderModel.Update probes the registry it is given
UpdateProviderLoaded(msg) ==
    /\ msg \in results /\ msg.type = "providerLoadedMsg"
    /\ results' = results \ {msg}
    /\ IF currentView = "ProviderView"
          THEN /\ loading' = FALSE
               /\ providerConfig' = UpdateProviderAvailability(msg.config)
          ELSE UNCHANGED <<loading, providerConfig>>
    /\ UNCHANGED <<dispatchVars, worldVars, factoryVars, cursor, appErrorMsg,
                   llmProviderType, pending, picked, baseVars>>

\* the keys the provider screen is modelled with
ProviderKeys == {"up", "down", "enter", "r"}

\* the batch of commands a selection starts
SelectionBatch ==
    [pending EXCEPT !.saveProviderConfig = @ + 1,
                    !.providerChangedMsg = @ + 1,
                    !.BackMsg = @ + 1]

\* mutant: the flags of the provider under the cursor are not looked at
SelectProviderWhateverFlags ==
    LET selectedProvider == providerConfig.Providers[cursor + 1] IN
    /\ picked.n < MaxSelections
    /\ IF Len(providerConfig.Providers) > 0 /\ cursor < Len(providerConfig.Providers)
          THEN /\ pending.saveProviderConfig < MaxInFlight
               /\ pending.providerChangedMsg < MaxInFlight
               /\ pending.BackMsg < MaxInFlight
               /\ providerConfig' = [providerConfig EXCEPT
                                       !.ActiveProviderID = selectedProvider.ID]
               /\ pending' = SelectionBatch
               /\ picked' = [id |-> selectedProvider.ID,
                             probe |-> CheckProviderAvailability(selectedProvider),
                             n |-> picked.n + 1,
                             refused |-> ~(selectedProvider.Enabled
                                           /\ selectedProvider.Available)]
          ELSE UNCHANGED <<providerConfig, pending, picked>>

\* ProviderModel.Update, key enter on the provider under the cursor: the
\* stored flags decide, and the three commands of the batch are started
SelectProvider ==
    LET selectedProvider == providerConfig.Providers[cursor + 1] IN
    /\ picked.n < MaxSelections
    /\ IF Len(providerConfig.Providers) > 0 /\ cursor < Len(providerConfig.Providers)
          THEN IF selectedProvider.Enabled /\ selectedProvider.Available
                  THEN /\ pending.saveProviderConfig < MaxInFlight
                       /\ pending.providerChangedMsg < MaxInFlight
                       /\ pending.BackMsg < MaxInFlight
                       /\ providerConfig' = [providerConfig EXCEPT
                                               !.ActiveProviderID = selectedProvider.ID]
                       /\ pending' = SelectionBatch
                       /\ picked' = [id |-> selectedProvider.ID,
                                     probe |-> CheckProviderAvailability(selectedProvider),
                                     n |-> picked.n + 1,
                                     refused |-> FALSE]
                  ELSE /\ picked' = [picked EXCEPT !.n = @ + 1, !.refused = TRUE]
                       /\ UNCHANGED <<providerConfig, pending>>
          ELSE UNCHANGED <<providerConfig, pending, picked>>

\* AppModel.Update(KeyMsg), delegated to ProviderModel.Update
ProviderKey(key) ==
    /\ Started /\ currentView = "ProviderView"
    /\ key \in ProviderKeys
    /\ CASE key = "up" ->
              /\ cursor' = IF cursor > 0 THEN cursor - 1 ELSE cursor
              /\ UNCHANGED <<providerConfig, pending, picked>>
         [] key = "down" ->
              /\ cursor' = IF cursor < Len(providerConfig.Providers) - 1
                              THEN cursor + 1 ELSE cursor
              /\ UNCHANGED <<providerConfig, pending, picked>>
         [] key = "enter" ->
              /\ SelectProvider
              /\ UNCHANGED cursor
         [] key = "r" ->
              /\ pending.loadProviders < MaxInFlight
              /\ pending' = [pending EXCEPT !.loadProviders = @ + 1]
              /\ UNCHANGED <<cursor, providerConfig, picked>>
    /\ UNCHANGED <<dispatchVars, worldVars, factoryVars, loading, appErrorMsg,
                   llmProviderType, results, baseVars>>

\* AppModel.Update(providerChangedMsg): reloadProvider; the screens are given
\* the new base model, the wrappers of the topic and content screens stay
UpdateProviderChanged ==
    LET loaded == LoadProviderConfig
        refreshed == UpdateProviderAvailability(loaded.config)
        created == CreateActiveProvider(refreshed)
    IN  /\ pending.providerChangedMsg > 0
        /\ pending' = [pending EXCEPT !.providerChangedMsg = @ - 1]
        /\ file' = loaded.file
        /\ IF loaded.err # nil
              THEN /\ appErrorMsg' = <<"Failed to reload provider configuration">>
                   /\ ret' = Ret("reload", "", "nil", "", nil, <<>>, LoadStep(loaded))
                   /\ UNCHANGED <<config, llmProviderType, llmProvider,
                                  providerErrorMsg, servedBy>>
              ELSE /\ config' = refreshed
                   /\ llmProviderType' = ProviderTypeOf(created)
                   /\ llmProvider' = ProviderOf(created)
                   /\ providerErrorMsg' = appErrorMsg
                   /\ servedBy' = ""
                   /\ ret' = Ret("reload", refreshed.ActiveProviderID,
                                 created.provider, created.name, created.err,
                                 <<>>, LoadStep(loaded))
                   /\ UNCHANGED appErrorMsg
        /\ UNCHANGED <<dispatchVars, build, envKeys, inPath, diskOk, providerConfig,
                       cursor, loading, results, picked, asyncWrapper>>

\* AppModel.Update(BackMsg): handleBack, from the provider screen to the splash
UpdateBack ==
    /\ pending.BackMsg > 0
    /\ pending' = [pending EXCEPT !.BackMsg = @ - 1]
    /\ currentView' = IF currentView = "ProviderView" THEN "SplashView"
                                                      ELSE currentView
    /\ UNCHANGED <<appRest, worldVars, factoryVars, providerConfig, cursor,
                   loading, appErrorMsg, llmProviderType, results, picked, baseVars>>

\* TopicModel.ExtractTopics and ContentModel's generation, reached from the
\* splash: the wrapper's provider is called
GenerateContentWithSystemPromptAsync ==
    /\ Started /\ currentView = "SplashView"
    /\ servedBy' = asyncWrapper
    /\ UNCHANGED <<dispatchVars, worldVars, factoryVars, providerConfig, cursor,
                   loading, appErrorMsg, llmProviderType, pending, results, picked,
                   llmProvider, asyncWrapper, providerErrorMsg>>

\* the claude executable is installed into, or removed from, the PATH
PathChange ==
    /\ inPath' = ~inPath
    /\ UNCHANGED <<dispatchVars, build, envKeys, diskOk, file, factoryVars,
                   screenVars>>

ProviderNext ==
    \/ NewAppModel
    \/ SplashKeyP
    \/ UpdateProviderMsg
    \/ loadProviders
    \/ saveProviderConfig
    \/ \E msg \in results : UpdateErrorMsg(msg)
    \/ \E msg \in results : UpdateProviderLoaded(msg)
    \/ \E key \in ProviderKeys : ProviderKey(key)
    \/ UpdateProviderChanged
    \/ UpdateBack
    \/ GenerateContentWithSystemPromptAsync
    \/ PathChange

ProviderSpec == ProviderInit /\ [][ProviderNext]_vars

\* ---- properties -----------------------------------------------------------

\* the message is the Timeout outcome
IsTimeout(m) == m.Error = ErrorText(DeadlineExceeded)

\* C1: every dispatched call yields exactly one outcome: its goroutine sends
\* exactly one response before it returns, the waiting command returns the
\* message of that response, the event loop handles it once, and it is the
\* backend's result or the Timeout.
C1_ExactlyOneOutcome ==
    \A c \in Calls :
        /\ Len(sent[c]) <= 1
        /\ Len(observed[c]) <= 1
        /\ phase[c] = "done" => Len(sent[c]) = 1
        /\ waitPhase[c] \in {"ready", "handled"} =>
              Len(sent[c]) = 1 /\ waitMsg[c] = ToMsg(sent[c][1])
        /\ waitPhase[c] = "handled" => observed[c] = <<waitMsg[c]>>
        /\ \A i \in 1..Len(observed[c]) :
              observed[c][i] \in {ToMsg(BackendResponse(c)), ToMsg(TimeoutResponse(c))}

\* C1 witness: one call ended in a Timeout and another in its backend's text
C1_Witness ==
    \E c, d \in Calls :
        /\ observed[c] = <<ToMsg(TimeoutResponse(c))>>
        /\ observed[d] = <<[Content |-> "text", Error |-> ""]>>

\* C2: when the timer of the deadline has fired before the backend returns,
\* the outcome handled by the event loop is the Timeout.
C2_LateResultDiscarded ==
    \A c \in Calls :
        (retWhen[c] = "fired" /\ Len(observed[c]) > 0) => IsTimeout(observed[c][1])

\* C3: once the deadline of a call has fired while its backend call is still
\* running, either the backend call returns or the Timeout is handled by the
\* event loop: a backend that never returns ends in a Timeout.
C3_TimeoutEventuallyDelivered ==
    \A c \in Calls :
        (phase[c] = "call" /\ ctxErr[c] = DeadlineExceeded) ~>
            (phase[c] # "call" \/ (Len(observed[c]) = 1 /\ IsTimeout(observed[c][1])))

\* C4: when the backend returns before the deadline, the outcome handled by
\* the event loop is what the backend returned.
C4_EarlyResultDelivered ==
    \A c \in Calls :
        (retWhen[c] = "early" /\ Len(observed[c]) > 0) =>
            observed[c][1] = ToMsg(BackendResponse(c))

\* C5: calls are independent: every call has a channel of its own on which
\* only its own goroutine sends, and while another call's backend call is
\* still running, each step of a call towards its outcome can be taken.
C5_CallsIndependent ==
    \A c \in Calls :
        /\ respChan[c] # 0 =>
              /\ writers[respChan[c]] \subseteq {c}
              /\ \A d \in Calls \ {c} : respChan[d] # respChan[c]
        /\ (\E d \in Calls \ {c} : phase[d] = "call") =>
              /\ phase[c] = "select" => ENABLED SelectSend(c)
              /\ phase[c] = "timeout" => ENABLED SendTimeout(c)
              /\ (phase[c] = "done" /\ waitPhase[c] = "waiting") => ENABLED WaitReceive(c)
              /\ waitPhase[c] = "ready" => ENABLED UpdateLLMResponse(c)

\* C5 witness: the first call is past its deadline with its backend call still
\* running, and a later call's outcome has been handled
C5_Witness ==
    \E c, d \in Calls :
        /\ d < c
        /\ phase[d] = "call" /\ ctxErr[d] = DeadlineExceeded
        /\ Len(observed[c]) = 1

\* C6: every response channel holds at most one value, is sent on at most once
\* and by the goroutine of its own call only, and is received from at most once.
C6_SlotWrittenOnce ==
    /\ \A ch \in Calls :
          /\ Len(chanBuf[ch]) <= ChanCap
          /\ Cardinality(writers[ch]) <= 1
          /\ reads[ch] <= 1
    /\ \A c \in Calls :
          /\ Len(sent[c]) <= 1
          /\ Len(sent[c]) > 0 => writers[respChan[c]] = {c}

\* C6 witness: a channel has been written once and read once
C6_Witness ==
    \E ch \in Calls : Cardinality(writers[ch]) = 1 /\ reads[ch] = 1 /\ chanClosed[ch]

\* C7: the UI thread never waits inside a backend call: after a dispatch it is
\* back in the event loop, where it can handle keys and ticks while the call
\* is in flight.
C7_DispatchDoesNotBlock ==
    /\ uiBlockedOn = 0
    /\ \A c \in Calls :
          phase[c] \in {"spawned", "call", "select", "timeout"} =>
              /\ ENABLED UpdateKey("x")
              /\ tickPending > 0 => ENABLED UpdateTick

\* C7 witness: a key or tick was handled while a backend call was running, and
\* the call is still running
C7_Witness ==
    servedDuring /\ \E c \in Calls : phase[c] = "call" /\ waitPhase[c] = "waiting"

\* C8: nothing panics, and a response that carries an error (a backend
\* failure or the Timeout) is handled by the event loop as a message with a
\* non-empty error text.
C8_FailuresAreMessages ==
    /\ ~panicked
    /\ \A c \in Calls :
          (Len(observed[c]) > 0 /\ Len(sent[c]) > 0 /\ sent[c][1].Error # NoError) =>
              observed[c][1].Error # ""

\* C8 witness: a backend failure and a Timeout have both been handled
C8_Witness ==
    \E c, d \in Calls :
        /\ observed[c] = <<[Content |-> "", Error |-> ErrorText(BackendError)]>>
        /\ observed[d] = <<[Content |-> "", Error |-> ErrorText(DeadlineExceeded)]>>

\* C9: no response and no message carries both a text and an error.
C9_TextOrError ==
    \A c \in Calls :
        /\ \A i \in 1..Len(sent[c]) :
              ~(sent[c][i].Content # "" /\ sent[c][i].Error # NoError)
        /\ \A i \in 1..Len(observed[c]) :
              ~(observed[c][i].Content # "" /\ observed[c][i].Error # "")
        /\ ~(waitMsg[c].Content # "" /\ waitMsg[c].Error # "")

\* C9 witness: a Timeout was handled for a call whose backend had returned a text
C9_Witness ==
    \E c \in Calls :
        /\ Len(observed[c]) = 1 /\ IsTimeout(observed[c][1])
        /\ backendResult[c].Content # ""

\* C10: the timer of a call's context has fired, and its goroutine has taken
\* the Timeout branch, only when the clock has reached the call's deadline,
\* which lies a whole timeout after the start of the call.
C10_NoEarlyTimeout ==
    \A c \in Calls :
        (ctxErr[c] = DeadlineExceeded \/ phase[c] = "timeout") =>
            (now >= deadline[c] /\ deadline[c] >= TimeoutTicks)

\* C10 witness: a goroutine is about to send the Timeout
C10_Witness ==
    \E c \in Calls : phase[c] = "timeout" /\ now >= deadline[c]

\* ---- properties of the registry and the factory ---------------------------

\* the descriptor the factory's registry holds for the id, if any
Holds(id) == \E i \in DOMAIN config.Providers : config.Providers[i].ID = id
Descriptor(id) ==
    config.Providers[CHOOSE i \in DOMAIN config.Providers : config.Providers[i].ID = id]

\* the error names the id
Names(err, id) == \E k \in DOMAIN err : err[k] = id

\* the failures of the factory, told apart by the text of the error
IsNotFound(err) == err # nil /\ err[Len(err)] = "' not found"
IsDisabled(err) == err # nil /\ err[Len(err)] = "' is disabled"
IsUnavailable(err) == err # nil /\ err[Len(err)] = "' is not available"
IsCreateFailure(err) == err # nil /\ err[1] = "failed to create provider '"
IsNotImplemented(err) ==
    IsCreateFailure(err) /\
    err[Len(err)] \in {"OpenAI API provider not yet implemented",
                       "Gemini API provider not yet implemented",
                       "Ollama provider not yet implemented"}
IsUnsupportedID(err) ==
    IsCreateFailure(err) /\ Len(err) = 5 /\
    err[4] \in {"unsupported API provider: ", "unsupported CLI provider: ",
                "unsupported local provider: "}

\* the kind of an outcome: success, or the failure and what it names
Kind(err) ==
    CASE err = nil -> <<"ok">>
      [] IsNotFound(err) -> <<"NotFound", err[2]>>
      [] IsDisabled(err) -> <<"Disabled", err[2]>>
      [] IsUnavailable(err) -> <<"Unavailable", err[2]>>
      [] OTHER -> err

\* C11: CreateActiveProvider fails with "not found" when the registry holds no
\* descriptor of the active id, with "is disabled" when the descriptor is not
\* enabled, with "is not available" when it is enabled and the probe fails;
\* each error names the id and no error is of two of the kinds.
C11_ThreeDistinctErrors ==
    ret.op = "CreateActive" =>
        /\ ~Holds(ret.id) => IsNotFound(ret.err)
        /\ (Holds(ret.id) /\ ~Descriptor(ret.id).Enabled) => IsDisabled(ret.err)
        /\ (Holds(ret.id) /\ Descriptor(ret.id).Enabled
              /\ ~CheckProviderAvailability(Descriptor(ret.id))) =>
                 IsUnavailable(ret.err)
        /\ (IsNotFound(ret.err) \/ IsDisabled(ret.err) \/ IsUnavailable(ret.err)) =>
              /\ Names(ret.err, ret.id)
              /\ ret.provider = "nil"
        /\ ~(IsNotFound(ret.err) /\ IsDisabled(ret.err))
        /\ ~(IsNotFound(ret.err) /\ IsUnavailable(ret.err))
        /\ ~(IsDisabled(ret.err) /\ IsUnavailable(ret.err))

\* C11 witness: the active descriptor "a" is enabled, its probe fails, and
\* CreateActiveProvider has answered "is not available" for 'a'
C11_Witness ==
    /\ ret.op = "CreateActive" /\ ret.id = "a"
    /\ Holds("a") /\ Descriptor("a").Enabled
    /\ ret.err = <<"active provider '", "a", "' is not available">>

\* the active descriptor exists, is enabled and its probe succeeds
ActiveUsable ==
    /\ Holds(ret.id) /\ Descriptor(ret.id).Enabled
    /\ CheckProviderAvailability(Descriptor(ret.id))

\* C12: when the active descriptor exists, is enabled and is available,
\* CreateActiveProvider returns a backend and the descriptor's display name,
\* without error.
C12_AvailableIsBuilt ==
    (ret.op = "CreateActive" /\ ActiveUsable) =>
        /\ ret.err = nil
        /\ ret.provider # "nil"
        /\ ret.name = Descriptor(ret.id).Name

\* C13: a SetActiveProvider(id) that returned no error, followed by
\* LoadProviderConfig (a restart), gives a registry whose ActiveProviderID is id.
C13_SetActiveSurvivesRestart ==
    (ret.op = "Load" /\ ret.prevOp = "SetActive" /\ ret.prevErr = nil) =>
        (ret.err = nil /\ config.ActiveProviderID = ret.prevId)

\* C14: SetActiveProvider(id) changes ActiveProviderID only when the descriptor
\* of id exists, is enabled and is available; when it returns no error,
\* ActiveProviderID is id and the file holds the registry; it builds no backend.
C14_SetActiveValidatesAndPersists ==
    ret.op = "SetActive" =>
        /\ config.ActiveProviderID # ret.was =>
              /\ Holds(ret.id) /\ Descriptor(ret.id).Enabled
              /\ CheckProviderAvailability(Descriptor(ret.id))
        /\ ret.err = nil =>
              /\ config.ActiveProviderID = ret.id
              /\ file = Marshal(config)
        /\ ret.provider = "nil"

\* the ids the constructor of a family has a case for
Recognized(type) ==
    CASE type = APIProviderType -> {"claude-api", "openai-api", "gemini-api"}
      [] type = CLIProviderType -> {"claude-cli"}
      [] type = LocalProviderType -> {"ollama"}
      [] OTHER -> {}

\* a provider was asked for by id, its descriptor passed the validation, and
\* the constructor of its family has no case for the id
UnknownIdConstructed ==
    /\ ret.op \in {"CreateActive", "Create"}
    /\ ActiveUsable
    /\ Descriptor(ret.id).Type \in {APIProviderType, CLIProviderType, LocalProviderType}
    /\ ret.id \notin Recognized(Descriptor(ret.id).Type)

\* C16 as stated: constructing a provider whose id its family's constructor
\* does not know fails with the "not yet implemented" error, which is none of
\* "not found", "is disabled", "is not available".
C16_UnknownIdNotImplemented ==
    UnknownIdConstructed =>
        /\ IsNotImplemented(ret.err)
        /\ ~IsNotFound(ret.err) /\ ~IsDisabled(ret.err) /\ ~IsUnavailable(ret.err)

\* C16 as amended: constructing a provider whose id its family's constructor
\* does not know fails with the error "unsupported <family> provider: <id>",
\* which names the id and is none of "not found", "is disabled", "is not
\* available" and "not yet implemented"; "not yet implemented" is the error of
\* the ids the constructor knows and has no backend for.
C16_UnknownIdUnsupported ==
    /\ UnknownIdConstructed =>
          /\ IsUnsupportedID(ret.err) /\ ret.err[5] = ret.id
          /\ ret.provider = "nil"
          /\ ~IsNotFound(ret.err) /\ ~IsDisabled(ret.err) /\ ~IsUnavailable(ret.err)
          /\ ~IsNotImplemented(ret.err)
    /\ (ret.op \in {"CreateActive", "Create"} /\ IsNotImplemented(ret.err)) =>
          /\ ActiveUsable
          /\ ret.id \in {"openai-api", "gemini-api", "ollama"}
          /\ ~IsUnsupportedID(ret.err)

\* C16 witness: the descriptor "a" passed the validation and its construction
\* answered "unsupported API provider: a"
C16_Witness ==
    /\ UnknownIdConstructed /\ ret.id = "a"
    /\ ret.err = <<"failed to create provider '", "a", "': ",
                   "unsupported API provider: ", "a">>

\* C17: CreateProvider(id) ends as CreateActiveProvider does on the same
\* registry with ActiveProviderID set to id: the same kind of failure naming
\* the same id, or the same backend and display name.
C17_SameValidation ==
    ret.op = "Create" =>
        LET active == CreateActiveProvider([config EXCEPT !.ActiveProviderID = ret.id])
        IN  /\ Kind(ret.err) = Kind(active.err)
            /\ ret.provider = active.provider
            /\ ret.name = active.name

\* C17 witness: CreateProvider has refused a disabled descriptor that is not
\* the active one
C17_Witness ==
    /\ ret.op = "Create" /\ ret.id # config.ActiveProviderID
    /\ Holds(ret.id) /\ ~Descriptor(ret.id).Enabled
    /\ IsDisabled(ret.err)

\* the place of a descriptor in the factory's registry
Place(d) == CHOOSE i \in DOMAIN config.Providers : config.Providers[i] = d

\* C18: GetAvailableProviders called right after UpdateProviderAvailability
\* returns the descriptors that are enabled and whose probe succeeds, all of
\* them and no other, in the order in which the registry holds them.
C18_ListAfterRefresh ==
    (ret.op = "List" /\ ret.prevOp = "Refresh") =>
        /\ \A k \in DOMAIN ret.list :
              /\ ret.list[k].Enabled /\ ret.list[k].Available
              /\ CheckProviderAvailability(ret.list[k])
              /\ \E i \in DOMAIN config.Providers : config.Providers[i] = ret.list[k]
        /\ \A j, k \in DOMAIN ret.list :
              j < k => Place(ret.list[j]) < Place(ret.list[k])
        /\ \A i \in DOMAIN config.Providers :
              (config.Providers[i].Enabled /\ config.Providers[i].Available) =>
                  \E k \in DOMAIN ret.list : ret.list[k] = config.Providers[i]

\* C18 witness: after a refresh the list holds several descriptors of the
\* registry and leaves others out
C18_Witness ==
    /\ ret.op = "List" /\ ret.prevOp = "Refresh"
    /\ Len(ret.list) >= 2 /\ Len(ret.list) < Len(config.Providers)

\* the application started over a record it could not read
StartedOnBadRecord ==
    /\ ret.op = "NewAppModel"
    /\ file.state \in {"corrupt", "unreadable"}

\* the application runs on the default registry and shows no error
SilentDefaults ==
    /\ config = UpdateProviderAvailability(DefaultProviderConfig)
    /\ appErrorMsg = nil

\* C15: when the persisted record is corrupt or unreadable, Load fails with
\* an error, and the program that started over it does not go on with the
\* default registry without showing the failure.
C15_BadRecordFailsLoudly ==
    StartedOnBadRecord => (ret.prevErr # nil /\ ~SilentDefaults)

\* C19: a provider selected in the provider screen was available in the
\* environment of the moment it was selected: the decision rests on a probe
\* made then, not on a flag computed earlier.
C19_SelectionProbesAfresh ==
    picked.id # "" => picked.probe

\* the reload asked for by the last selection has been done, and it could
\* read the registry
Reloaded ==
    /\ ret.op = "reload" /\ ret.prevErr = nil
    /\ pending.providerChangedMsg = 0

\* C20: once a provider has been selected in the provider screen of the
\* build that persists, on a disk that can be written, the registry the
\* application reloads has that provider as the active one: the registry
\* was written before it was read back.
C20_ReloadSeesSelection ==
    (build = "file" /\ diskOk /\ Reloaded) => (ret.id = picked.id)

\* C24: a Load that finds no persisted record, on a disk that can be written,
\* returns the default registry with no error and leaves a persisted record
\* that holds the defaults.
C24_AbsentLoadWritesDefaults ==
    [][(file.state = "absent" /\ diskOk /\ ret'.op = "Load") =>
          /\ ret'.err = nil
          /\ config' = DefaultProviderConfig
          /\ file' = Marshal(DefaultProviderConfig)]_vars

\* two registries hold the same descriptors in the same order, each with the
\* same id, family, enabled flag and config, and have the same active provider
SameRegistry(r1, r2) ==
    /\ Len(r1.Providers) = Len(r2.Providers)
    /\ \A i \in DOMAIN r1.Providers :
          /\ r1.Providers[i].ID = r2.Providers[i].ID
          /\ r1.Providers[i].Type = r2.Providers[i].Type
          /\ r1.Providers[i].Enabled = r2.Providers[i].Enabled
          /\ r1.Providers[i].ApiKey = r2.Providers[i].ApiKey
    /\ r1.ActiveProviderID = r2.ActiveProviderID

\* C25: after a Save(r) that returned no error, a Load returns no error and a
\* registry with r's descriptors, in r's order, and r's active provider, and
\* a second Save(r) leaves the persisted record as it is.
C25_SaveRoundTrips ==
    [][(ret.op = "Save" /\ ret.err = nil) =>
          /\ ret'.op = "Load" => (ret'.err = nil /\ SameRegistry(config', config))
          /\ ret'.op = "Save" => file' = file]_vars

\* the descriptor that was probed
Probed == config.Providers[1]

\* the variable a descriptor names is set, and not to the empty string
KeyIsSet(p) ==
    /\ p.ApiKey # ""
    /\ p.ApiKey \in DOMAIN envKeys
    /\ envKeys[p.ApiKey] # ""

\* C26: the probe of a hosted-API descriptor answers available exactly when
\* the environment variable that Config["api_key"] names is set to a non-empty
\* value; a variable set to "", an unset variable and a descriptor without
\* the entry all give not available.
C26_HostedAPIProbe ==
    (ret.op = "Check" /\ Probed.Type = APIProviderType) =>
        (Probed.Available <=> KeyIsSet(Probed))

\* C26 witness: the probe answered not available for a descriptor whose
\* variable is set to the empty string
C26_Witness ==
    /\ ret.op = "Check" /\ Probed.Type = APIProviderType
    /\ Probed.ApiKey \in DOMAIN envKeys /\ envKeys[Probed.ApiKey] = ""
    /\ ~Probed.Available

\* C27: for a descriptor of the local-executable family the probe answers
\* available exactly when the constructor, in the same environment, resolves
\* its executable and makes the client; both look up the one executable of
\* claude-cli.
C27_ProbeMatchesConstructor ==
    (ret.op = "createProvider" /\ Probed.Type = CLIProviderType) =>
        /\ Probed.Available <=> (ret.err = nil)
        /\ Probed.Available <=> (Probed.ID = "claude-cli" /\ inPath)

\* C27 witness: the probe found claude-cli available and the constructor
\* made its client
C27_Witness ==
    /\ ret.op = "createProvider" /\ Probed.Type = CLIProviderType
    /\ Probed.Available /\ ret.provider = "ClaudeCLIClient"

\* a descriptor with its Available flag left out
Unprobed(p) == [p EXCEPT !.Available = FALSE]

\* C28: UpdateProviderAvailability changes nothing but the Available flags:
\* the registry has the same descriptors in the same order with the same id,
\* family, enabled flag and config, and the same active provider; the file is
\* not written; and a second run in the same environment gives the same
\* registry.
C28_RefreshChangesOnlyAvailable ==
    [][ret'.op = "Refresh" =>
          /\ Len(config'.Providers) = Len(config.Providers)
          /\ \A i \in DOMAIN config.Providers :
                /\ Unprobed(config'.Providers[i]) = Unprobed(config.Providers[i])
                /\ config'.Providers[i].Available =
                      CheckProviderAvailability(config.Providers[i])
          /\ config'.ActiveProviderID = config.ActiveProviderID
          /\ file' = file
          /\ UpdateProviderAvailability(config') = config']_vars

\* C28 witness: a refresh of a registry read from the file that holds a
\* disabled descriptor and whose stored flags were stale
C28_Witness ==
    /\ ret.op = "Refresh" /\ file.state = "record"
    /\ Len(config.Providers) >= 2
    /\ \E i \in DOMAIN config.Providers : ~config.Providers[i].Enabled
    /\ \E i \in DOMAIN config.Providers :
          config.Providers[i].Available # file.providers[i].available

\* C21: an LLM operation started after the provider was reloaded is run by the
\* provider that the reload made the provider of the application.
C21_OperationsUseReloadedProvider ==
    servedBy # "" => servedBy = llmProvider

\* C22: when the ErrorMsg of a failed load or save is handled while the
\* provider screen is shown, the provider screen is no longer loading and
\* holds the error to display.
C22_ErrorReachesProviderScreen ==
    [][\A msg \in results :
          (/\ msg.type = "ErrorMsg"
           /\ currentView = "ProviderView"
           /\ results' = results \ {msg})
          => (loading' = FALSE /\ providerErrorMsg' = msg.Error)]_vars

\* the descriptor that ActiveProviderID names in the registry of the
\* application, 0 when there is none
ActiveIndex == GetProviderByID(config, config.ActiveProviderID)

\* the active descriptor is missing, disabled or unavailable
ActiveUnusable ==
    \/ ActiveIndex = 0
    \/ ~config.Providers[ActiveIndex].Enabled
    \/ ~config.Providers[ActiveIndex].Available

\* the factory has been called, at startup or by a reload whose load succeeded
FactoryCalled ==
    \/ ret.op = "NewAppModel"
    \/ ret.op = "reload" /\ ret.prevErr = nil

\* C23: when the active id names a missing, disabled or unavailable
\* descriptor, at startup and on reload, the factory returns the matching
\* error and the application runs on with the mock provider.
C23_UnusableActiveFallsBackToMock ==
    (FactoryCalled /\ ActiveUnusable)
    => /\ IF ActiveIndex = 0 THEN IsNotFound(ret.err)
          ELSE IF ~config.Providers[ActiveIndex].Enabled THEN IsDisabled(ret.err)
          ELSE IsUnavailable(ret.err)
       /\ Names(ret.err, config.ActiveProviderID)
       /\ Started
       /\ llmProvider = "mockLLMProvider"
       /\ llmProviderType = "Mock (No providers available)"

\* a reload found the selected descriptor unavailable and fell back to the mock
C23_Witness ==
    /\ ret.op = "reload" /\ ret.prevErr = nil
    /\ ActiveUnusable
    /\ IsUnavailable(ret.err)
    /\ llmProvider = "mockLLMProvider"

\* a command of the provider screen (loadProviders or saveProviderConfig,
\* each run in a goroutine of its own) ends in this step
CommandRuns ==
    \/ pending'.loadProviders < pending.loadProviders
    \/ pending'.saveProviderConfig < pending.saveProviderConfig

\* C29: the registries the application holds (that of the provider screen and
\* that of the last factory) are changed only by the handlers of the event
\* loop: a step in which a command runs leaves both as they were.
C29_CommandsLeaveRegistry ==
    [][CommandRuns => (providerConfig' = providerConfig /\ config' = config)]_vars

\* the save command of an accepted selection has run while the screen held
\* its registry
C29_Witness ==
    /\ ~providerConfig.Nil
    /\ picked.n > 0 /\ ~picked.refused
    /\ pending.saveProviderConfig = 0
    /\ providerConfig.ActiveProviderID = picked.id

\* the provider under the cursor of the provider screen
UnderCursor == providerConfig.Providers[cursor + 1]

\* enter is handled in this step with a provider under the cursor
EnterHandled == picked'.n = picked.n + 1

\* C30: enter on a provider that the provider screen holds as disabled or as
\* unavailable (the flags of its list) leaves the active id as it was, starts
\* no save and no other command, writes nothing and stays in the provider
\* screen.
C30_RefusedSelectionChangesNothing ==
    [][(EnterHandled /\ ~(UnderCursor.Enabled /\ UnderCursor.Available))
       => /\ providerConfig' = providerConfig
          /\ config' = config
          /\ file' = file
          /\ pending' = pending
          /\ results' = results
          /\ currentView' = currentView
          /\ currentView = "ProviderView"]_vars

\* enter was pressed on a disabled or unavailable provider, and refused
C30_Witness ==
    /\ picked.refused
    /\ currentView = "ProviderView"
    /\ ~providerConfig.Nil
    /\ ~(UnderCursor.Enabled /\ UnderCursor.Available)

\* ---- the backends: GenerateContent and GenerateContentWithSystemPrompt ----

Backends == {"ClaudeClient", "OpenAIClient", "ClaudeCLIClient", "mockLLMProvider"}

\* the prompts of a call: the empty one and one with text
Prompts == {"", "write"}

\* what the service or the executable can do with one request: the request
\* or the run fails, the status is not 200 (the API backends), the answer holds
\* no content block, no choice or only blank output, or it holds a text
Outcomes == {"error", "status", "empty", "text"}

\* what the backend sends out: the JSON body of the API backends (system is
\* left out of Claude's body and of OpenAI's messages when it is empty), the
\* last argument of the claude command
Request(b, systemPrompt, userPrompt) ==
    CASE b = "ClaudeClient" ->
           IF systemPrompt # ""
              THEN <<"system", systemPrompt, "user", userPrompt>>
              ELSE <<"user", userPrompt>>
      [] b = "OpenAIClient" ->
           (IF systemPrompt # "" THEN <<"system", systemPrompt>> ELSE <<>>)
           \o <<"user", userPrompt>>
      [] b = "ClaudeCLIClient" ->
           IF systemPrompt # ""
              THEN <<"System: ", systemPrompt, "\n\nUser: ", userPrompt>>
              ELSE <<userPrompt>>
      [] OTHER -> <<>>

\* the requests a backend can send with these prompts
Requests(b) == {Request(b, sp, up) : sp \in Prompts, up \in Prompts}

\* GenerateContentWithSystemPrompt of each backend
GenerateContentWithSystemPrompt(b, systemPrompt, userPrompt) ==
    LET req == Request(b, systemPrompt, userPrompt)
        outcome == outside[req]
    IN  CASE b = "mockLLMProvider" ->
               [content |-> <<"mockTopics">>, err |-> nil]
          [] b = "ClaudeCLIClient" ->
               CASE outcome \in {"error", "status"} ->
                      [content |-> <<>>, err |-> <<"claude CLI execution failed: ", req>>]
                 [] outcome = "empty" ->
                      [content |-> <<>>, err |-> <<"claude CLI returned empty response">>]
                 [] OTHER -> [content |-> <<"answer to", req>>, err |-> nil]
          [] OTHER ->
               CASE outcome = "error" ->
                      [content |-> <<>>, err |-> <<"failed to make request: ", req>>]
                 [] outcome = "status" ->
                      [content |-> <<>>, err |-> <<"API request failed with status ", req>>]
                 [] outcome = "empty" ->
                      [content |-> <<>>,
                       err |-> IF b = "ClaudeClient" THEN <<"no content in response">>
                                                     ELSE <<"no choices in response">>]
                 [] OTHER -> [content |-> <<"answer to", req>>, err |-> nil]

\* mutant: the prompt is passed as the instruction, with an empty user prompt
ProviderGenerateContentAsSystem(b, prompt) ==
    GenerateContentWithSystemPrompt(b, prompt, "")

\* GenerateContent of each backend
ProviderGenerateContent(b, prompt) ==
    GenerateContentWithSystemPrompt(b, "", prompt)

LLMInit ==
    /\ DispatchInit /\ RegIdle /\ GitIdle /\ ListIdle /\ EditIdle
    /\ backend \in Backends
    /\ outside \in [Requests(backend) -> Outcomes]
    /\ llmCall = NoCall /\ llmResult = NoResult

\* provider.GenerateContent(ctx, prompt)
CallGenerateContent(prompt) ==
    /\ llmCall' = [method |-> "GenerateContent", systemPrompt |-> "",
                   userPrompt |-> prompt]
    /\ llmResult' = ProviderGenerateContent(backend, prompt)
    /\ UNCHANGED <<appVars, gitVars, listVars, editVars, backend, outside>>

\* provider.GenerateContentWithSystemPrompt(ctx, systemPrompt, userPrompt)
CallGenerateContentWithSystemPrompt(systemPrompt, userPrompt) ==
    /\ llmCall' = [method |-> "GenerateContentWithSystemPrompt",
                   systemPrompt |-> systemPrompt, userPrompt |-> userPrompt]
    /\ llmResult' = GenerateContentWithSystemPrompt(backend, systemPrompt, userPrompt)
    /\ UNCHANGED <<appVars, gitVars, listVars, editVars, backend, outside>>

LLMNext ==
    \/ \E prompt \in Prompts : CallGenerateContent(prompt)
    \/ \E sp \in Prompts, up \in Prompts : CallGenerateContentWithSystemPrompt(sp, up)

LLMSpec == LLMInit /\ [][LLMNext]_vars

\* C31: on every backend, what GenerateContent(ctx, prompt) returns is what
\* GenerateContentWithSystemPrompt(ctx, "", prompt) returns from the same
\* service.
C31_GenerateContentIsEmptyInstruction ==
    llmCall.method = "GenerateContent"
    => llmResult = GenerateContentWithSystemPrompt(backend, "", llmCall.userPrompt)

\* GenerateContent has returned a text from a service that would have
\* answered the same prompt, given as the instruction, with a failure
C31_Witness ==
    /\ llmCall.method = "GenerateContent"
    /\ llmCall.userPrompt # ""
    /\ llmResult.err = nil
    /\ GenerateContentWithSystemPrompt(backend, llmCall.userPrompt, "").err # nil

\* ---- git.go: the repository root and the pages of the log ----------------

\* a path as its elements: "/" first when it is absolute; "" is <<>>
Root == <<"/">>

\* the directories of the file system
Dirs == {Root \o [i \in 1..n |-> "d"] : n \in 0..MaxDepth}

\* the paths a caller passes: absolute or relative, with "." elements
Paths ==
    [abs : BOOLEAN, segs : UNION {[1..n -> {"d", "."}] : n \in 0..MaxDepth}]

\* filepath.Abs: a relative path is joined to the working directory, and the
\* result is cleaned of its "." elements
Abs(path) ==
    SelectSeq(IF path.abs THEN Root \o path.segs ELSE cwd \o path.segs,
              LAMBDA e : e # ".")

\* filepath.Dir: the parent, the root being its own
Dir(current) ==
    IF Len(current) <= 1 THEN current ELSE SubSeq(current, 1, Len(current) - 1)

\* the loop of GetGitDirectory from current upwards; last is the directory
\* the loop examined last
RECURSIVE WalkUp(_)
WalkUp(current) ==
    IF current \in dotGit
       THEN [path |-> current, found |-> TRUE, err |-> nil, last |-> current]
       ELSE IF Dir(current) = current
               THEN [path |-> <<>>, found |-> FALSE, err |-> nil, last |-> current]
               ELSE WalkUp(Dir(current))

\* mutant: the walk starts at the parent of the path
GetGitDirectoryFromParent(path) == WalkUp(Dir(Abs(path)))

\* GetGitDirectory
GetGitDirectory(path) == WalkUp(Abs(path))

\* the author names of the commits: a plain one and one that holds a "|"
Authors == {<<"Ann">>, <<"A", "|", "B">>}

\* the commit at position k (newest first) of a repository, as git stores it
CommitAt(k, author) ==
    [Hash |-> <<ToString(k)>>, Author |-> author, Email |-> <<"a@b.c">>,
     Date |-> <<"1700000000">>, Subject |-> <<"subject">>,
     Body |-> IF k % 2 = 0 THEN <<"body", "\n">> ELSE <<>>]

\* the repositories: up to MaxCommits commits
Repos ==
    UNION {{[k \in 1..n |-> CommitAt(k, a[k])] : a \in [1..n -> Authors]} :
            n \in 0..MaxCommits}

\* one entry of git log --pretty=format:%H|%an|%ae|%at|%s|%b|||END|||
FormatCommit(c) ==
    c.Hash \o <<"|">> \o c.Author \o <<"|">> \o c.Email \o <<"|">> \o c.Date
    \o <<"|">> \o c.Subject \o <<"|">> \o c.Body \o <<"|||END|||">>

\* the entries of git log: a newline between two entries, none after the last
RECURSIVE JoinEntries(_)
JoinEntries(commits) ==
    IF commits = <<>> THEN <<>>
    ELSE IF Len(commits) = 1 THEN FormatCommit(commits[1])
    ELSE FormatCommit(commits[1]) \o <<"\n">> \o JoinEntries(Tail(commits))

\* git log --skip=skip --max-count=maxCount: git fails when HEAD has no commit
GitLog(skip, maxCount) ==
    IF repo = <<>>
       THEN [out |-> <<>>, err |-> <<"exit status 128">>]
       ELSE [out |-> JoinEntries(SubSeq(repo, skip + 1,
                                        IF skip + maxCount < Len(repo)
                                           THEN skip + maxCount ELSE Len(repo))),
             err |-> nil]

\* strings.SplitN(s, sep, n); strings.Split is SplitN with n = -1
RECURSIVE SplitN(_, _, _)
SplitN(s, sep, n) ==
    LET hits == {i \in 1..(Len(s) - Len(sep) + 1) :
                    SubSeq(s, i, i + Len(sep) - 1) = sep}
    IN  IF n = 1 \/ hits = {}
           THEN <<s>>
           ELSE LET i == CHOOSE k \in hits : \A j \in hits : k <= j
                IN  <<SubSeq(s, 1, i - 1)>>
                    \o SplitN(SubSeq(s, i + Len(sep), Len(s)), sep, n - 1)

\* strings.TrimSpace
RECURSIVE TrimSpace(_)
TrimSpace(s) ==
    IF s # <<>> /\ s[1] = "\n" THEN TrimSpace(Tail(s))
    ELSE IF s # <<>> /\ s[Len(s)] = "\n" THEN TrimSpace(SubSeq(s, 1, Len(s) - 1))
    ELSE s

\* the loop of parseCommits over the parts
RECURSIVE ParseParts(_)
ParseParts(parts) ==
    IF parts = <<>> THEN [commits |-> <<>>, err |-> nil]
    ELSE LET part == TrimSpace(Head(parts))
             fields == SplitN(part, <<"|">>, 6)
             rest == ParseParts(Tail(parts))
         IN  IF part = <<>> \/ Len(fields) < 5 THEN rest
             ELSE IF fields[4] # <<"1700000000">>
                     THEN [commits |-> <<>>,
                           err |-> <<"failed to parse timestamp: ">> \o fields[4]]
             ELSE IF rest.err # nil THEN rest
             ELSE [commits |->
                     <<[Hash |-> fields[1], Author |-> fields[2],
                        Email |-> fields[3], Date |-> fields[4],
                        Subject |-> fields[5],
                        Body |-> IF Len(fields) > 5 THEN TrimSpace(fields[6])
                                                    ELSE <<>>]>>
                     \o rest.commits,
                   err |-> nil]

\* parseCommits
parseCommits(output) ==
    IF TrimSpace(output) = <<>>
       THEN [commits |-> <<>>, err |-> nil]
       ELSE ParseParts(SplitN(output, <<"|||END|||", "\n">>, -1))

\* getTotalCommitCount: git rev-list --count HEAD
getTotalCommitCount ==
    IF repo = <<>> THEN [count |-> 0, err |-> <<"failed to get commit count: ">>]
                   ELSE [count |-> Len(repo), err |-> nil]

\* (nil, err) of GetCommitLogs
NoPageErr(err) == [page |-> NoPage, err |-> err]

\* GetCommitLogs
GetCommitLogs(repoPath, perPage, pageNum) ==
    LET root == GetGitDirectory(repoPath)
        skip == (pageNum - 1) * perPage
        limit == perPage + 1
        log == GitLog(skip, limit)
        parsed == parseCommits(log.out)
        hasMore == Len(parsed.commits) > perPage
        total == getTotalCommitCount
    IN  IF ~root.found
           THEN NoPageErr(<<"directory ">> \o Abs(repoPath)
                          \o <<" is not a git repository">>)
        ELSE IF log.err # nil
           THEN NoPageErr(<<"failed to execute git log: ">> \o log.err)
        ELSE IF parsed.err # nil
           THEN NoPageErr(<<"failed to parse commits: ">> \o parsed.err)
        ELSE IF total.err # nil
           THEN NoPageErr(<<"failed to get total commit count: ">> \o total.err)
        ELSE [page |-> [Commits |-> IF hasMore
                                       THEN SubSeq(parsed.commits, 1, perPage)
                                       ELSE parsed.commits,
                        PageNum |-> pageNum, PerPage |-> perPage,
                        HasMore |-> hasMore, Total |-> total.count, Nil |-> FALSE],
              err |-> nil]

GitInit ==
    /\ DispatchInit /\ RegIdle /\ LLMIdle /\ ListIdle /\ EditIdle
    /\ dotGit \in SUBSET Dirs
    /\ cwd \in {Root, Root \o <<"d">>}
    /\ repo \in Repos
    /\ gitCall = NoGitCall /\ gitResult = NoGitResult

\* core.GetGitDirectory(path), once on each file system
CallGetGitDirectory(path) ==
    LET r == GetGitDirectory(path) IN
    /\ gitCall = NoGitCall
    /\ gitCall' = [fn |-> "GetGitDirectory", path |-> path, perPage |-> 0,
                   pageNum |-> 0]
    /\ gitResult' = [path |-> r.path, found |-> r.found, last |-> r.last,
                     page |-> NoPage, err |-> r.err]
    /\ UNCHANGED <<appVars, llmVars, listVars, editVars, dotGit, cwd, repo>>

\* core.GetCommitLogs(repoPath, perPage, pageNum), once on each repository
CallGetCommitLogs(repoPath, perPage, pageNum) ==
    LET r == GetCommitLogs(repoPath, perPage, pageNum) IN
    /\ gitCall = NoGitCall
    /\ gitCall' = [fn |-> "GetCommitLogs", path |-> repoPath, perPage |-> perPage,
                   pageNum |-> pageNum]
    /\ gitResult' = [path |-> <<>>, found |-> FALSE, last |-> <<>>, page |-> r.page,
                     err |-> r.err]
    /\ UNCHANGED <<appVars, llmVars, listVars, editVars, dotGit, cwd, repo>>

GitNext ==
    \/ \E path \in Paths : CallGetGitDirectory(path)
    \/ \E path \in Paths : \E perPage \in 1..MaxPage : \E pageNum \in 1..MaxPage :
          CallGetCommitLogs(path, perPage, pageNum)

GitSpec == GitInit /\ [][GitNext]_vars

\* the hashes of the commits at the newest-first positions of page pageNum
PageHashes(perPage, pageNum) ==
    LET lo == (pageNum - 1) * perPage + 1
        hi == IF pageNum * perPage < Len(repo) THEN pageNum * perPage ELSE Len(repo)
    IN  IF lo > hi THEN <<>> ELSE [i \in 1..(hi - lo + 1) |-> repo[lo + i - 1].Hash]

\* C32: for perPage >= 1 and pageNum >= 1, in a repository of N commits,
\* GetCommitLogs returns without error the commits of the page in newest-first
\* order (none beyond N), echoes PageNum and PerPage, reports Total = N, and
\* HasMore is true exactly when N > pageNum * perPage.
C32_PageOfCommits ==
    (gitCall.fn = "GetCommitLogs" /\ GetGitDirectory(gitCall.path).found)
    => LET page == gitResult.page IN
       /\ gitResult.err = nil
       /\ ~page.Nil
       /\ [i \in 1..Len(page.Commits) |-> page.Commits[i].Hash]
            = PageHashes(gitCall.perPage, gitCall.pageNum)
       /\ page.PageNum = gitCall.pageNum
       /\ page.PerPage = gitCall.perPage
       /\ page.Total = Len(repo)
       /\ page.HasMore <=> (Len(repo) > gitCall.pageNum * gitCall.perPage)

\* the path and its ancestors, as filepath.Abs names them
Ancestors(path) == {SubSeq(Abs(path), 1, k) : k \in 1..Len(Abs(path))}

\* C33: GetGitDirectory(path) returns, with found = true and no error, the
\* nearest of the path and its ancestors that holds a .git entry; when none
\* does it returns "" with found = false and no error, and the last directory
\* the walk examined is the root.
C33_NearestGitRoot ==
    gitCall.fn = "GetGitDirectory"
    => LET roots == Ancestors(gitCall.path) \cap dotGit IN
       /\ gitResult.err = nil
       /\ IF roots # {}
             THEN /\ gitResult.found
                  /\ gitResult.path \in roots
                  /\ \A r \in roots : Len(r) <= Len(gitResult.path)
             ELSE /\ ~gitResult.found
                  /\ gitResult.path = <<>>
                  /\ gitResult.last = Root

\* a relative path two levels below a repository root, with a second
\* repository above that root: the nearer root is returned
C33_Witness ==
    /\ gitCall.fn = "GetGitDirectory"
    /\ ~gitCall.path.abs
    /\ gitResult.found
    /\ Len(gitResult.path) < Len(Abs(gitCall.path))
    /\ Cardinality(Ancestors(gitCall.path) \cap dotGit) > 1

\* C34: when SetActiveProvider returns an error, of validation or of
\* persistence, the registry's ActiveProviderID is what it was before the call.
C34_FailedSetActiveKeepsActive ==
    (ret.op = "SetActive" /\ ret.err # nil) => config.ActiveProviderID = ret.was

\* ---- the list screens: commits, topics, formats, providers ----------------

\* the keys the list screens are modelled with
ListKeys == {"up", "down", "home", "end", "v", "V", "d", "escape", "n", "enter"}

\* NewFormatModel: the formats offered
formats == <<"ContentFormatBlogArticle", "ContentFormatTwitterThread",
             "ContentFormatLinkedInPost">>

\* the cursor of a list of n entries after a navigation key, as the four
\* screens move it
MoveCursor(c, n, key) ==
    CASE key = "up" -> IF c > 0 THEN c - 1 ELSE c
      [] key = "down" -> IF c < n - 1 THEN c + 1 ELSE c
      [] key = "home" -> 0
      [] key = "end" -> IF n > 0 THEN n - 1 ELSE c
      [] OTHER -> c

\* ListingModel.Update(KeyMsg): the model after the key
ListingKeyMsg(m, key) ==
    LET c == MoveCursor(m.cursor, m.commits, key)
        count == Cardinality(m.selectedCommits)
        start == IF m.rangeStart > m.cursor THEN m.cursor ELSE m.rangeStart
        end == IF m.rangeStart > m.cursor THEN m.rangeStart ELSE m.cursor
        flash == [m EXCEPT !.flashLimit = TRUE, !.flashTimers = @ + 1]
    IN  CASE key = "up" ->
               [m EXCEPT !.cursor = c,
                         !.viewport = IF c < m.cursor /\ c < @ THEN c ELSE @]
          [] key = "down" ->
               [m EXCEPT !.cursor = c,
                         !.viewport = IF c > m.cursor /\ c >= @ + maxViewport
                                         THEN c - maxViewport + 1 ELSE @]
          [] key = "home" -> [m EXCEPT !.cursor = 0, !.viewport = 0]
          [] key = "end" ->
               IF m.commits > 0
                  THEN [m EXCEPT !.cursor = c,
                                 !.viewport = IF m.commits > maxViewport
                                                 THEN m.commits - maxViewport
                                                 ELSE 0]
                  ELSE m
          [] key = "v" ->
               IF count < SelectionLimit \/ m.cursor \in m.selectedCommits
                  THEN [m EXCEPT !.selectedCommits =
                                     IF m.cursor \in @ THEN @ \ {m.cursor}
                                                       ELSE @ \cup {m.cursor}]
                  ELSE flash
          [] key = "V" ->
               IF ~m.selectionMode
                  THEN [m EXCEPT !.selectionMode = TRUE, !.rangeStart = m.cursor,
                                 !.selectedCommits = @ \cup {m.cursor}]
                  ELSE IF count + (end - start + 1) <= SelectionLimit
                          THEN [m EXCEPT !.selectedCommits = @ \cup (start..end),
                                         !.selectionMode = FALSE,
                                         !.rangeStart = -1]
                          ELSE [flash EXCEPT !.selectionMode = FALSE,
                                             !.rangeStart = -1]
          [] key = "d" -> [m EXCEPT !.selectedCommits = @ \ {m.cursor}]
          [] key = "escape" ->
               [m EXCEPT !.selectionMode = FALSE, !.rangeStart = -1,
                         !.selectedCommits = {}]
          [] OTHER -> m

\* a command that returns NextMsg is started
StartNext == IF nextPending < MaxPending THEN nextPending + 1 ELSE nextPending

\* ListingModel.Update(KeyMsg), and the command it returns
ListingKey(key) ==
    /\ Started /\ currentView = "ListingView"
    /\ key \in ListKeys
    /\ ListingKeyMsg(listingModel, key).flashTimers <= MaxInFlight
    /\ listingModel' = ListingKeyMsg(listingModel, key)
    /\ nextPending' = IF key = "n" /\ listingModel.selectedCommits # {}
                         THEN StartNext ELSE nextPending
    /\ UNCHANGED <<now, uiVars, splashPending, tickPending, uiBlockedOn, callVars,
                   chanVars, panicked, histVars, worldVars, factoryVars,
                   screenVars, llmVars, gitVars, editVars, topicCursor,
                   formatCursor>>

\* ListingModel.Update(flashTimerMsg): the tick a refused selection started
UpdateFlashTimer ==
    /\ listingModel.flashTimers > 0
    /\ listingModel' = [listingModel EXCEPT !.flashTimers = @ - 1,
                                            !.flashLimit = FALSE]
    /\ UNCHANGED <<appVars, llmVars, gitVars, editVars, topicCursor, formatCursor>>

\* the variables the topic screen leaves alone
topicFrame ==
    <<now, currentView, selected, isGenerating, contentErrorMsg, generatedContent,
      showFinalOutput, statusMessage, splashPending, tickPending, uiBlockedOn,
      callVars, chanVars, histVars, worldVars, factoryVars, screenVars, llmVars,
      gitVars, editVars, listingModel, formatCursor>>

\* a response of k topics, comma-separated
RECURSIVE TopicList(_)
TopicList(k) == IF k = 1 THEN <<"t">> ELSE TopicList(k - 1) \o <<",", "t">>

\* the LLMResponseMsg values the topic screen is given
TopicResponses ==
    { [Content |-> TopicList(k), Error |-> ""] : k \in 1..MaxTopics }
    \cup { [Content |-> <<>>, Error |-> ""],
           [Content |-> <<>>, Error |-> "LLM call timed out"] }

\* TopicModel.ExtractTopics, when handleNext opens the topic screen again
TopicExtract ==
    /\ Started /\ currentView = "TopicSelectionView"
    /\ ~isExtracting
    /\ isExtracting' = TRUE
    /\ topicErrorMsg' = ""
    /\ topics' = <<>>
    /\ UNCHANGED <<topicFrame, nextPending, panicked, topicCursor>>

\* TopicModel.Update(LLMResponseMsg): SetTopics on the segments of the content
TopicResponse(msg) ==
    /\ currentView = "TopicSelectionView"
    /\ isExtracting
    /\ isExtracting' = FALSE
    /\ IF msg.Error # ""
          THEN /\ topicErrorMsg' = msg.Error
               /\ topics' = <<>>
               /\ UNCHANGED topicCursor
          ELSE /\ topicErrorMsg' = ""
               /\ topics' = SplitN(msg.Content, <<",">>, -1)
               /\ topicCursor' = 0
    /\ UNCHANGED <<topicFrame, nextPending, panicked>>

\* TopicModel.Update(KeyMsg)
TopicKey(key) ==
    /\ Started /\ currentView = "TopicSelectionView"
    /\ key \in ListKeys
    /\ ~panicked
    /\ IF isExtracting
          THEN UNCHANGED <<topicCursor, nextPending, panicked>>
          ELSE /\ topicCursor' = MoveCursor(topicCursor, Len(topics), key)
               /\ IF key = "enter" /\ Len(topics) > 0
                     THEN /\ panicked' = ~(topicCursor < Len(topics))
                          /\ nextPending' = StartNext
                     ELSE UNCHANGED <<nextPending, panicked>>
    /\ UNCHANGED <<topicFrame, isExtracting, topicErrorMsg, topics>>

\* FormatModel.Update(KeyMsg)
FormatKey(key) ==
    /\ Started /\ currentView = "FormatSelectionView"
    /\ key \in ListKeys
    /\ ~panicked
    /\ formatCursor' = MoveCursor(formatCursor, Len(formats), key)
    /\ IF key = "enter" /\ Len(formats) > 0
          THEN /\ panicked' = ~(formatCursor < Len(formats))
               /\ nextPending' = StartNext
          ELSE UNCHANGED <<nextPending, panicked>>
    /\ UNCHANGED <<topicFrame, isExtracting, topicErrorMsg, topics, listingModel,
                   topicCursor>>

\* a registry of one provider, as an edited providers.json holds it
OneProviderConfig ==
    [Providers |-> << Provider("claude-cli", TRUE, FALSE) >>,
     ActiveProviderID |-> "claude-cli", Nil |-> FALSE]

\* the configuration files of the list screens
ListFiles == {Marshal(DefaultProviderConfig), Marshal(OneProviderConfig)}

\* providers.json is edited outside the application, while the splash or the
\* provider screen is shown (no other screen reads the file)
FileEdited ==
    /\ build = "file"
    /\ currentView \in {"SplashView", "ProviderView"}
    /\ file' \in ListFiles \ {file}
    /\ UNCHANGED <<dispatchVars, build, envKeys, inPath, diskOk, factoryVars,
                   screenVars>>

\* the application over some repository and configuration file, on the splash
\* screen before NewAppModel or on one of the list screens after it (with the
\* mock provider)
ListInit ==
    /\ DispatchIdle /\ LLMIdle /\ GitIdle /\ EditIdle
    /\ currentView \in {"SplashView", "ListingView", "TopicSelectionView",
                        "FormatSelectionView"}
    /\ build = "file" /\ envKeys = Environ(EnvNames, "secret")
    /\ inPath = TRUE /\ diskOk = TRUE
    /\ file \in IF currentView = "SplashView"
                   THEN ListFiles ELSE {Marshal(DefaultProviderConfig)}
    /\ config = NoConfig /\ ret = NoRet
    /\ providerConfig = NoConfig /\ cursor = 0 /\ loading = TRUE
    /\ appErrorMsg = <<>> /\ providerErrorMsg = <<>>
    /\ pending = NoPending /\ results = {}
    /\ picked = NoPick /\ servedBy = ""
    /\ IF currentView = "SplashView"
          THEN llmProviderType = "" /\ llmProvider = "" /\ asyncWrapper = ""
          ELSE /\ llmProviderType = "Mock (No providers available)"
               /\ llmProvider = "mockLLMProvider"
               /\ asyncWrapper = "mockLLMProvider"
    /\ listingModel \in IF currentView = "ListingView"
                           THEN {NewListingModel(n) : n \in 0..MaxListed}
                           ELSE {NewListingModel(0)}
    /\ topicCursor = 0 /\ formatCursor = 0

ListNext ==
    \/ \E key \in ListKeys : ListingKey(key)
    \/ UpdateFlashTimer
    \/ TopicExtract
    \/ \E msg \in TopicResponses : TopicResponse(msg)
    \/ \E key \in ListKeys : TopicKey(key)
    \/ \E key \in ListKeys : FormatKey(key)
    \/ FileEdited
    \/ NewAppModel
    \/ SplashKeyP
    \/ UpdateProviderMsg
    \/ loadProviders
    \/ saveProviderConfig
    \/ \E msg \in results : UpdateProviderLoaded(msg)
    \/ \E key \in ProviderKeys : ProviderKey(key)
    \/ UpdateProviderChanged
    \/ UpdateBack

ListSpec == ListInit /\ [][ListNext]_vars

OnEntry(c, n) == n > 0 => (0 <= c /\ c < n)

\* C38: in the commit, topic, format and provider lists, whenever the list is
\* non-empty the cursor is at least 0 and less than the length of the list
C38_CursorWithinList ==
    /\ OnEntry(listingModel.cursor, listingModel.commits)
    /\ OnEntry(topicCursor, Len(topics))
    /\ OnEntry(formatCursor, Len(formats))
    /\ OnEntry(cursor, Len(providerConfig.Providers))

\* the screen that AppModel.Update delegates to when a model's view is current
ViewOf(model) ==
    CASE model = "topic" -> "TopicSelectionView"
      [] model = "content" -> "ContentCreationView"
      [] OTHER -> "none"

\* a call of the model has been dispatched and its outcome not yet handled
Outstanding(model) ==
    \E c \in Calls : owner[c] = model /\ waitPhase[c] # "handled"

\* the event loop handles the LLMResponseMsg of call c in this step
Handles(c) == waitPhase[c] = "ready" /\ waitPhase'[c] = "handled"

\* C36: every LLMResponseMsg is handled by the model that dispatched the
\* call, and that model's isExtracting or isGenerating flag is true exactly
\* from the dispatch until the outcome has been handled
C36_ResponseReachesItsModel ==
    /\ [](/\ isExtracting <=> Outstanding("topic")
          /\ isGenerating <=> Outstanding("content"))
    /\ [][\A c \in Calls : Handles(c) => currentView = ViewOf(owner[c])]_vars

\* What the Go scheduler guarantees to a goroutine on its own: a select with a
\* ready case and a send that can proceed do proceed.  Nothing makes the
\* command of WaitForLLMResponse receive, the event loop run, a timer fire or
\* time pass.
WorkerFairness ==
    \A c \in Calls :
        /\ WF_vars(SelectSend(c) \/ SelectDone(c))
        /\ WF_vars(SendTimeout(c))

WorkerSpec == Spec /\ WorkerFairness

\* the provider call of call c's goroutine has returned and the goroutine has not
Returned(c) == phase[c] \in {"select", "timeout"}

\* C37: once the backend call has returned, the goroutine can always proceed
\* and does terminate, whether or not anything is received from the channel;
\* the channel is closed once, by the step that ends the goroutine, and every
\* value is sent before the close
C37_WorkerTerminates ==
    /\ \A c \in Calls :
          Returned(c) ~> (phase[c] = "done" /\ chanClosed[respChan[c]])
    /\ [](/\ ~panicked
          /\ \A c \in Calls :
                /\ Returned(c) => /\ CanSend(respChan[c])
                                  /\ ~chanClosed[respChan[c]]
                /\ phase[c] = "done" => chanClosed[respChan[c]])
    /\ [][\A c \in Calls :
             sent'[c] # sent[c] => /\ ~chanClosed[respChan[c]]
                                   /\ phase'[c] = "done"]_vars

\* a goroutine has sent its response and returned, and nothing has been
\* received from its channel
C37_Witness ==
    \E c \in Calls :
        /\ phase[c] = "done" /\ Len(sent[c]) = 1
        /\ chanClosed[respChan[c]] /\ reads[respChan[c]] = 0
        /\ chanBuf[respChan[c]] = sent[c]
        /\ waitPhase[c] = "waiting"

\* ---- the keyboard of the content screen -----------------------------------

\* the keys the content screen is modelled with; "a" and "q" are printable
EditKeys == {"a", "q", "ctrl+c", "enter", "escape"}
Printable == {"a", "q"}

\* what no key of the content screen but enter changes
editFrame ==
    <<now, cmdVars, uiBlockedOn, callVars, chanVars, panicked, histVars,
      worldVars, factoryVars, llmVars, gitVars, listVars>>

\* the screen's fields that only enter and a response change
contentFields ==
    <<currentView, selected, isExtracting, topicErrorMsg, topics, isGenerating,
      contentErrorMsg, generatedContent, statusMessage>>

\* the provider screen's variables but the commands in flight
screenRest ==
    <<providerConfig, cursor, loading, appErrorMsg, llmProviderType, results,
      picked, baseVars>>

\* ContentModel.Update(KeyMsg) for a key other than enter
ContentKeyMsg(key) ==
    /\ UNCHANGED <<editFrame, contentFields, screenRest, quit>>
    /\ CASE isGenerating ->
              UNCHANGED <<showFinalOutput, pending, textarea>>
         [] key = "escape" /\ showFinalOutput ->
              /\ showFinalOutput' = FALSE
              /\ UNCHANGED <<pending, textarea>>
         [] key = "escape" ->
              /\ pending' = [pending EXCEPT !.BackMsg =
                                IF @ < MaxInFlight THEN @ + 1 ELSE @]
              /\ UNCHANGED <<showFinalOutput, textarea>>
         [] showFinalOutput ->
              \* passed to the viewport
              UNCHANGED <<showFinalOutput, pending, textarea>>
         [] isEditingPrompt ->
              /\ Len(textarea) < MaxPrompt
              /\ textarea' = Append(textarea, key)
              /\ UNCHANGED <<showFinalOutput, pending>>
         [] OTHER ->
              UNCHANGED <<showFinalOutput, pending, textarea>>

\* AppModel.Update(KeyMsg) while the content screen is current: ctrl+c and q
\* quit, every other key is delegated to ContentModel.Update
EditKey(key) ==
    /\ Started /\ currentView = "ContentCreationView"
    /\ key \in EditKeys
    /\ ~quit /\ ~panicked /\ uiBlockedOn = 0
    /\ CASE key \in {"ctrl+c", "q"} ->
              /\ quit' = TRUE
              /\ UNCHANGED <<appVars, llmVars, gitVars, listVars, textarea>>
         [] key = "enter" -> UpdateKey("enter")
         [] OTHER -> ContentKeyMsg(key)

\* AppModel.Update(BackMsg): handleBack, from the content screen to the formats
EditBack ==
    /\ pending.BackMsg > 0
    /\ pending' = [pending EXCEPT !.BackMsg = @ - 1]
    /\ currentView' = IF currentView = "ContentCreationView"
                         THEN "FormatSelectionView" ELSE currentView
    /\ UNCHANGED <<editFrame, selected, isExtracting, topicErrorMsg, topics,
                   isGenerating, contentErrorMsg, generatedContent,
                   showFinalOutput, statusMessage, screenRest, editVars>>

\* AppModel.Update(NextMsg): handleNext, from the formats to the content
\* screen through SetContextWithCommits
EditHandleNext ==
    /\ nextPending > 0
    /\ nextPending' = nextPending - 1
    /\ IF currentView = "FormatSelectionView"
          THEN /\ currentView' = "ContentCreationView"
               /\ textarea' = <<>>
               /\ showFinalOutput' = FALSE
          ELSE UNCHANGED <<currentView, textarea, showFinalOutput>>
    /\ UNCHANGED <<now, selected, isExtracting, topicErrorMsg, topics,
                   isGenerating, contentErrorMsg, generatedContent, statusMessage,
                   splashPending, tickPending, uiBlockedOn, callVars, chanVars,
                   panicked, histVars, worldVars, factoryVars, screenVars,
                   llmVars, gitVars, listVars, quit>>

\* the application on the content screen, the prompt empty, with the mock
\* provider
EditInit ==
    /\ DispatchIdle /\ LLMIdle /\ GitIdle /\ ListIdle /\ EditIdle
    /\ currentView = "ContentCreationView"
    /\ build = "defaults" /\ envKeys = Environ({}, "") /\ inPath = FALSE
    /\ diskOk = TRUE /\ file = NoFile("absent")
    /\ config = NoConfig /\ ret = NoRet
    /\ providerConfig = NoConfig /\ cursor = 0 /\ loading = TRUE
    /\ appErrorMsg = <<>> /\ providerErrorMsg = <<>>
    /\ pending = NoPending /\ results = {}
    /\ picked = NoPick /\ servedBy = ""
    /\ llmProviderType = "Mock (No providers available)"
    /\ llmProvider = "mockLLMProvider" /\ asyncWrapper = "mockLLMProvider"

EditNext ==
    \/ \E key \in EditKeys : EditKey(key)
    \/ EditBack
    \/ \E key \in ListKeys : FormatKey(key)
    \/ EditHandleNext
    \/ Advance
    \/ \E c \in Calls : GoStart(c)
    \/ \E c \in Calls : \E r \in BackendResults : BackendReturn(c, r)
    \/ \E c \in Calls : DeadlineFire(c)
    \/ \E c \in Calls : SelectSend(c)
    \/ \E c \in Calls : SelectDone(c)
    \/ \E c \in Calls : SendTimeout(c)
    \/ \E c \in Calls : WaitReceive(c)
    \/ UpdateTick
    \/ \E c \in Calls : UpdateLLMResponse(c)

EditSpec == EditInit /\ [][EditNext]_vars

\* the prompt is being edited and no generation is running
Editing ==
    /\ currentView = "ContentCreationView"
    /\ isEditingPrompt /\ ~showFinalOutput /\ ~isGenerating

\* C39: while the prompt is being edited and no generation is running, every
\* printable character key that is pressed is passed to the prompt text area
C39_PrintableKeysReachPrompt ==
    [][\A key \in Printable :
          (Editing /\ EditKey(key)) => textarea' = Append(textarea, key)]_vars

====
